---- MODULE Spec2Model ----
(***************************************************************************)
(* Model of the StatlineMCP tool pipelines: catalog search and enrichment, *)
(* table metadata aggregation, observation queries, the fetch-and-validate *)
(* gateway and the execution wrapper.                                      *)
(*                                                                         *)
(* Strings are sequences of chunks.  Data characters are one-character     *)
(* chunks; the fixed parts of a template literal are one chunk each.  The  *)
(* real string is the concatenation of the chunks.                         *)
(***************************************************************************)
EXTENDS Integers, Sequences, FiniteSets, TLC

VARIABLES tool, pc, input, requests, outstanding, gatewayLog, local, queryResult,
          logicOutcome, envelope, eventLoop

vars == <<tool, pc, input, requests, outstanding, gatewayLog, local, queryResult,
          logicOutcome, envelope, eventLoop>>

----------------------------------------------------------------------------
(* Bounds of the model *)

MaxQueryLen == 3
MaxCandidates == 2
MaxResultsBound == 2
MaxPayloadLen == 3
MaxValueLen == 2
MaxRowsBound == 2
MaxRowsReturned == 3
MaxDims == 2
MaxDataProperties == 2
MaxDescLen == 253
MaxCodesReturned == 6

----------------------------------------------------------------------------
(* JavaScript values *)

\* null, and a non-null value v
Null == [isNull |-> TRUE]
Some(v) == [isNull |-> FALSE, value |-> v]

\* Characters a raw query is drawn from: a letter with a lower-case form,
\* the single quote, and a whitespace character.
Chars == {"A", "'", " "}

StringsUpTo(S, n) == UNION {[1..k -> S] : k \in 0..n}

IsWhitespace(c) == c \in {" ", "\t", "\n"}

\* String.prototype.toLowerCase
toLowerCase(s) == [i \in 1..Len(s) |-> IF s[i] = "A" THEN "a"
                                       ELSE IF s[i] = "T" THEN "t" ELSE s[i]]

\* String.prototype.split(/\s+/): the pieces between maximal whitespace runs,
\* including the empty pieces before a leading and after a trailing run.
RECURSIVE splitFrom(_, _, _)
splitFrom(s, i, cur) ==
    IF i > Len(s) THEN <<cur>>
    ELSE IF IsWhitespace(s[i])
         THEN IF i < Len(s) /\ IsWhitespace(s[i + 1])
              THEN splitFrom(s, i + 1, cur)
              ELSE <<cur>> \o splitFrom(s, i + 1, <<>>)
         ELSE splitFrom(s, i + 1, Append(cur, s[i]))

splitWhitespace(s) == splitFrom(s, 1, <<>>)

\* Array.prototype.filter(Boolean) on strings: the empty string is falsy
filterBoolean(parts) == SelectSeq(parts, LAMBDA p : p # <<>>)

\* Variant: the quotes are left as they are
escapeQuotes_unescaped(s) == s

\* String.prototype.replace(/'/g, "''")
RECURSIVE escapeQuotes(_)
escapeQuotes(s) ==
    IF s = <<>> THEN <<>>
    ELSE (IF Head(s) = "'" THEN <<"'", "'">> ELSE <<Head(s)>>) \o escapeQuotes(Tail(s))

\* Array.prototype.join(sep)
RECURSIVE join(_, _)
join(parts, sep) ==
    IF parts = <<>> THEN <<>>
    ELSE IF Len(parts) = 1 THEN parts[1]
    ELSE parts[1] \o sep \o join(Tail(parts), sep)

\* String(n) for a non-negative integer: its decimal digits
Digit(d) == CASE d = 0 -> "0" [] d = 1 -> "1" [] d = 2 -> "2" [] d = 3 -> "3"
              [] d = 4 -> "4" [] d = 5 -> "5" [] d = 6 -> "6" [] d = 7 -> "7"
              [] d = 8 -> "8" [] d = 9 -> "9"

RECURSIVE String(_)
String(n) == IF n < 10 THEN <<Digit(n)>> ELSE String(n \div 10) \o <<Digit(n % 10)>>

----------------------------------------------------------------------------
(* Tool names and endpoints *)

findStatlineTablesToolName == "find_statline_tables"
getStatlineTableMetadataToolName == "get_statline_table_metadata"
queryStatlineDataToolName == "query_statline_data"
CBS_ODATA_BASE_URL == "https://datasets.cbs.nl/odata/v1/CBS/"
V1_DATASETS_ENDPOINT == "https://datasets.cbs.nl/odata/v1/CBS/Datasets"
CATALOG_TABLES_ENDPOINT == "https://opendata.cbs.nl/ODataCatalog/Tables"

\* encodeURIComponent: letters, digits and - _ . ! ~ * ' ( ) are kept, every
\* other character becomes its percent-encoded UTF-8 bytes
RECURSIVE encodeURIComponent(_)
encodeURIComponent(s) ==
    IF s = <<>> THEN <<>>
    ELSE (CASE Head(s) = " " -> <<"%", "2", "0">>
            [] Head(s) = "\t" -> <<"%", "0", "9">>
            [] OTHER -> <<Head(s)>>) \o encodeURIComponent(Tail(s))

\* The empty object, and a key that is present only when its value is defined
EmptyObject == [k \in {} |-> k]
Opt(key, present, v) == IF present THEN key :> v ELSE EmptyObject
Has(obj, key) == key \in DOMAIN obj

\* The event loop runs the code of one invocation at a time; the invocations
\* that wait at an await are suspended with their own state.  A single
\* invocation has none beside it.
SingleInvocation == [running |-> 1, suspended |-> EmptyObject]

----------------------------------------------------------------------------
(* The remote service: what one HTTP GET can come back with *)

FailedResponses == {[kind |-> "networkError"], [kind |-> "httpError"], [kind |-> "invalidJson"]}
OkResponse(body) == [kind |-> "ok", body |-> body]

----------------------------------------------------------------------------
(* Catalog search and enrichment *)

\* Candidate identifiers the remote may return; one contains a single quote
\* and a character that encodeURIComponent rewrites.
Ids == {<<"T", "1">>, <<"T", "'", " ">>}

\* cbsDatasetSearchResponseSchema: { value: [{ Identifier: string }] }, unknown
\* keys of an item are stripped
cbsDatasetSearchResponseSchema(body) ==
    IF Has(body, "value") /\ \A i \in 1..Len(body.value) : Has(body.value[i], "Identifier")
    THEN Some([value |-> [i \in 1..Len(body.value) |-> [Identifier |-> body.value[i].Identifier]]])
    ELSE Null

\* Variant: any non-empty list of records is accepted
catalogTableResponseSchema_atLeastOne(body) ==
    IF Has(body, "value") /\ Len(body.value) >= 1 /\ Has(body.value[1], "Identifier")
    THEN Some(body) ELSE Null

\* catalogTableResponseSchema: { value: [catalogTable] } of length exactly 1,
\* catalogTable requires Identifier and passes every other key through
catalogTableResponseSchema(body) ==
    IF Has(body, "value") /\ Len(body.value) = 1 /\ Has(body.value[1], "Identifier")
    THEN Some(body) ELSE Null

\* findStatlineTablesOutputSchema: an array of rows with id and title required
findStatlineTablesOutputSchema(rows) ==
    IF \A i \in 1..Len(rows) : Has(rows[i], "id") /\ Has(rows[i], "title")
    THEN Some(rows) ELSE Null

\* cbsObservationsResponseSchema: { value: [record] }
cbsObservationsResponseSchema(body) == IF Has(body, "value") THEN Some(body) ELSE Null

\* queryStatlineDataOutputSchema: an array of records
queryStatlineDataOutputSchema(rows) == Some(rows)

\* Timestamps that z.string().datetime({ offset: true }) accepts
ValidDatetimes == {"2024-05-01T02:00:00+02:00"}

\* cbsPropertiesResponseSchema: every known key optional, Modified a datetime
\* with offset, unknown keys passed through
cbsPropertiesResponseSchema(body) ==
    IF Has(body, "Modified") => body.Modified \in ValidDatetimes THEN Some(body) ELSE Null

\* The keys cbsDimensionSchema knows; every other key is stripped
DimensionKeys == {"Identifier", "Title", "Description", "Kind", "Position", "Unit",
                  "Decimals", "CodesUrl", "GroupsUrl"}

\* cbsDimensionsResponseSchema: { value: [dimension] }, Identifier and Title
\* required
cbsDimensionsResponseSchema(body) ==
    IF Has(body, "value")
       /\ \A i \in 1..Len(body.value) : Has(body.value[i], "Identifier") /\ Has(body.value[i], "Title")
    THEN Some([value |-> [i \in 1..Len(body.value) |->
                    [k \in DOMAIN body.value[i] \cap DimensionKeys |-> body.value[i][k]]]])
    ELSE Null

\* cbsCodesResponseSchema: { value: [code] }, Identifier and Title required
cbsCodesResponseSchema(body) ==
    IF Has(body, "value")
       /\ \A i \in 1..Len(body.value) : Has(body.value[i], "Identifier") /\ Has(body.value[i], "Title")
    THEN Some(body) ELSE Null

\* cbsDataPropertiesResponseSchema: { value: [dataProperty] }, Key, Title and
\* Type required, unknown keys passed through
cbsDataPropertiesResponseSchema(body) ==
    IF Has(body, "value")
       /\ \A i \in 1..Len(body.value) :
             Has(body.value[i], "Key") /\ Has(body.value[i], "Title") /\ Has(body.value[i], "Type")
    THEN Some(body) ELSE Null

\* getStatlineTableMetadataOutputSchema: key and title required in every
\* dimension and measure
getStatlineTableMetadataOutputSchema(output) ==
    IF /\ \A i \in 1..Len(output.dimensions) :
             Has(output.dimensions[i], "key") /\ Has(output.dimensions[i], "title")
       /\ \A i \in 1..Len(output.measures) :
             Has(output.measures[i], "key") /\ Has(output.measures[i], "title")
    THEN Some(output) ELSE Null

\* schema.safeParse(rawData): Null on a mismatch, Some(data) otherwise
safeParse(schema, rawData) ==
    CASE schema = "cbsDatasetSearchResponseSchema" -> cbsDatasetSearchResponseSchema(rawData)
      [] schema = "catalogTableResponseSchema" -> catalogTableResponseSchema(rawData)
      [] schema = "cbsObservationsResponseSchema" -> cbsObservationsResponseSchema(rawData)
      [] schema = "cbsPropertiesResponseSchema" -> cbsPropertiesResponseSchema(rawData)
      [] schema = "cbsDimensionsResponseSchema" -> cbsDimensionsResponseSchema(rawData)
      [] schema = "cbsCodesResponseSchema" -> cbsCodesResponseSchema(rawData)
      [] schema = "cbsDataPropertiesResponseSchema" -> cbsDataPropertiesResponseSchema(rawData)

\* Variant: the parsed body is returned without the schema validation
fetchAndValidate_unvalidated(resp, schema) ==
    IF resp.kind # "ok" THEN Null ELSE Some(resp.body)

\* fetchAndValidate: the parsed data when the GET succeeds with a success
\* status, the body is JSON and safeParse succeeds; null in every other case.
fetchAndValidate(resp, schema) ==
    IF resp.kind # "ok" THEN Null ELSE safeParse(schema, resp.body)

\* Bodies the /Datasets endpoint may answer with
SearchBodies ==
    {[value |-> [i \in 1..Len(ids) |-> [Identifier |-> ids[i], Title |-> "t"]]] :
        ids \in StringsUpTo(Ids, MaxCandidates)}
    \cup {[error |-> "unexpected shape"]}

\* Catalog records the /ODataCatalog/Tables endpoint may hold for an identifier
CatalogRecords(id) ==
    {[Identifier |-> id, Title |-> "Bevolking", Summary |-> "Kerncijfers",
      ShortDescription |-> "Korte omschrijving", OutputStatus |-> "Regulier",
      Frequency |-> "Perjaar", Period |-> "2010-2024",
      MetaDataModified |-> Some("2024-05-01"), Modified |-> Some("2023-01-01")],
     [Identifier |-> id, ShortDescription |-> "Korte omschrijving",
      MetaDataModified |-> Null, Modified |-> Some("2023-01-01")]}

\* Bodies the catalog endpoint may answer a by-identifier lookup with: no
\* record, one record, two records, or an unexpected shape
CatalogBodies(id) ==
    {[value |-> <<>>]}
    \cup {[value |-> <<r>>] : r \in CatalogRecords(id)}
    \cup {[value |-> <<r, r>>] : r \in CatalogRecords(id)}
    \cup {[error |-> "unexpected shape"]}

\* The filter clause of one search term
termClause(term) ==
    <<"(contains(tolower(Title),'">> \o escapeQuotes(term)
        \o <<"') or contains(tolower(Description),'">> \o escapeQuotes(term) \o <<"'))">>

\* Variant: the empty pieces of the split are kept
searchTermsOf_keepEmpty(query) == splitWhitespace(toLowerCase(query))

\* query.toLowerCase().split(/\s+/).filter(Boolean)
searchTermsOf(query) == filterBoolean(splitWhitespace(toLowerCase(query)))

filterClausesOf(searchTerms) ==
    join([i \in 1..Len(searchTerms) |-> termClause(searchTerms[i])], <<" and ">>)

\* The initial search request on the v1 /Datasets endpoint
initialRequest(searchTerms, maxResults) ==
    [endpoint |-> <<V1_DATASETS_ENDPOINT>>,
     params |-> [filter |-> filterClausesOf(searchTerms), select |-> <<"Identifier">>,
                 top |-> String(maxResults), format |-> <<"json">>,
                 orderby |-> <<"Modified desc">>]]

\* The string literal fetchCatalogMetadata embeds for a table identifier
catalogIdLiteral(tableId) == encodeURIComponent(tableId)

\* The by-identifier request of fetchCatalogMetadata
catalogRequest(tableId) ==
    [endpoint |-> <<CATALOG_TABLES_ENDPOINT>>,
     params |-> [format |-> <<"json">>,
                 filter |-> <<"Identifier eq '">> \o catalogIdLiteral(tableId) \o <<"'">>,
                 select |-> <<"Identifier,Title,Summary,ShortDescription,OutputStatus,Frequency,Period,MetaDataModified,Modified">>]]

\* What fetchCatalogMetadata returns for the gateway's result: data?.value?.[0]
fetchCatalogMetadata(data) ==
    IF data = Null THEN Null
    ELSE IF Len(data.value.value) >= 1 THEN Some(data.value.value[1]) ELSE Null

\* Variant: the second key is preferred to the first
Coalesce_preferSecond(r, a, b) ==
    IF Has(r, b) /\ r[b] # Null THEN r[b] ELSE IF Has(r, a) THEN r[a] ELSE Null

\* a ?? b on two optional keys of a record whose values may be null
Coalesce(r, a, b) ==
    IF Has(r, a) /\ r[a] # Null THEN r[a] ELSE IF Has(r, b) THEN r[b] ELSE Null

\* The row pushed for an enriched candidate
enrichedRow(tableId, c) ==
    [id |-> c.Identifier,
     title |-> IF Has(c, "Title") THEN <<c.Title>> ELSE <<"Title missing for ">> \o tableId]
    @@ Opt("summary", Has(c, "Summary") \/ Has(c, "ShortDescription"),
           IF Has(c, "Summary") THEN c.Summary
           ELSE IF Has(c, "ShortDescription") THEN c.ShortDescription ELSE "")
    @@ Opt("status", Has(c, "OutputStatus"), IF Has(c, "OutputStatus") THEN c.OutputStatus ELSE "")
    @@ Opt("frequency", Has(c, "Frequency"), IF Has(c, "Frequency") THEN c.Frequency ELSE "")
    @@ Opt("period", Has(c, "Period"), IF Has(c, "Period") THEN c.Period ELSE "")
    @@ Opt("modified", (Has(c, "MetaDataModified") /\ c.MetaDataModified # Null) \/ Has(c, "Modified"),
           Coalesce(c, "MetaDataModified", "Modified"))

\* Variant: a failed lookup is represented by a placeholder row
pushEnriched_placeholder(rows, tableId, catalogData) ==
    IF catalogData # Null THEN Append(rows, enrichedRow(tableId, catalogData.value))
    ELSE Append(rows, [id |-> tableId, title |-> <<"Title missing for ">> \o tableId])

\* The body of the enrichment loop: a row is pushed for a candidate whose
\* lookup returned a record, a failed lookup is skipped.
pushEnriched(rows, tableId, catalogData) ==
    IF catalogData # Null THEN Append(rows, enrichedRow(tableId, catalogData.value)) ELSE rows

\* Variant: the lookups of all candidates are issued together
enrichmentStep_allAtOnce(candidateIds, i, rows, response) ==
    IF i = 0
    THEN /\ requests' = requests \o [k \in 1..Len(candidateIds) |-> catalogRequest(candidateIds[k])]
         /\ outstanding' = {Len(requests) + k : k \in 1..Len(candidateIds)}
         /\ local' = [candidateIds |-> candidateIds, i |-> 1, enrichedResults |-> rows,
                      response |-> response]
         /\ pc' = "awaitCatalog"
         /\ UNCHANGED queryResult
    ELSE IF i < Len(candidateIds)
    THEN /\ outstanding' = outstanding \ {i + 1}
         /\ local' = [candidateIds |-> candidateIds, i |-> i + 1, enrichedResults |-> rows,
                      response |-> response]
         /\ pc' = "awaitCatalog"
         /\ UNCHANGED <<requests, queryResult>>
    ELSE /\ queryResult' = Some(rows)
         /\ outstanding' = {}
         /\ local' = [candidateIds |-> candidateIds, i |-> i, enrichedResults |-> rows,
                      response |-> response]
         /\ pc' = "queryReturned"
         /\ UNCHANGED requests

\* Variant: a lookup that failed at the network level is tried a second time
enrichmentStep_retry(candidateIds, i, rows, response) ==
    IF i >= 1 /\ response.kind = "networkError" /\ Len(requests) = 1 + i
    THEN /\ requests' = Append(requests, catalogRequest(candidateIds[i]))
         /\ outstanding' = {Len(requests) + 1}
         /\ local' = [candidateIds |-> candidateIds, i |-> i, enrichedResults |-> rows,
                      response |-> response]
         /\ pc' = "awaitCatalog"
         /\ UNCHANGED queryResult
    ELSE IF i < Len(candidateIds)
    THEN /\ requests' = Append(requests, catalogRequest(candidateIds[i + 1]))
         /\ outstanding' = {Len(requests) + 1}
         /\ local' = [candidateIds |-> candidateIds, i |-> i + 1, enrichedResults |-> rows,
                      response |-> response]
         /\ pc' = "awaitCatalog"
         /\ UNCHANGED queryResult
    ELSE /\ queryResult' = Some(rows)
         /\ outstanding' = {}
         /\ local' = [candidateIds |-> candidateIds, i |-> i, enrichedResults |-> rows,
                      response |-> response]
         /\ pc' = "queryReturned"
         /\ UNCHANGED requests

\* The loop of fetchAndEnrichDatasetsFromCBS after the lookup of candidate i
\* has been settled with the rows collected so far: the next lookup is issued,
\* or the rows are returned.  response is what the gateway call that has just
\* completed received.
enrichmentStep(candidateIds, i, rows, response) ==
    IF i < Len(candidateIds)
    THEN /\ requests' = Append(requests, catalogRequest(candidateIds[i + 1]))
         /\ outstanding' = {Len(requests) + 1}
         /\ local' = [candidateIds |-> candidateIds, i |-> i + 1, enrichedResults |-> rows,
                      response |-> response]
         /\ pc' = "awaitCatalog"
         /\ UNCHANGED queryResult
    ELSE /\ queryResult' = Some(rows)
         /\ outstanding' = {}
         /\ local' = [candidateIds |-> candidateIds, i |-> i, enrichedResults |-> rows,
                      response |-> response]
         /\ pc' = "queryReturned"
         /\ UNCHANGED requests

\* handleToolExecution calls findTablesLogic, which calls
\* fetchAndEnrichDatasetsFromCBS: it runs up to its first await or return.
FindStart ==
    /\ tool = findStatlineTablesToolName
    /\ pc = "start"
    /\ LET searchTerms == searchTermsOf(input.query) IN
        IF Len(searchTerms) = 0
        THEN /\ queryResult' = Some(<<>>)
             /\ pc' = "queryReturned"
             /\ UNCHANGED <<requests, outstanding, local>>
        ELSE /\ requests' = Append(requests, initialRequest(searchTerms, input.maxResults))
             /\ outstanding' = {Len(requests) + 1}
             /\ local' = [searchTerms |-> searchTerms]
             /\ pc' = "awaitInitialSearch"
             /\ UNCHANGED queryResult
    /\ UNCHANGED <<eventLoop, tool, input, gatewayLog, logicOutcome, envelope>>

\* The gateway call of the initial search completes with resp.
InitialSearchResponse ==
    /\ tool = findStatlineTablesToolName
    /\ pc = "awaitInitialSearch"
    /\ \E resp \in FailedResponses \cup {OkResponse(b) : b \in SearchBodies} :
       LET initialData == fetchAndValidate(resp, "cbsDatasetSearchResponseSchema") IN
        /\ gatewayLog' = Append(gatewayLog, [context |-> "initialSearch", returned |-> initialData])
        /\ IF initialData = Null \/ Len(initialData.value.value) = 0
           THEN /\ queryResult' = Some(<<>>)
                /\ outstanding' = {}
                /\ pc' = "queryReturned"
                /\ UNCHANGED <<requests, local>>
           ELSE LET candidateIds == [i \in 1..Len(initialData.value.value) |->
                                        initialData.value.value[i].Identifier]
                IN enrichmentStep(candidateIds, 0, <<>>, resp)
    /\ UNCHANGED <<eventLoop, tool, input, logicOutcome, envelope>>

\* The gateway call of the current candidate's catalog lookup completes.
CatalogResponse ==
    /\ tool = findStatlineTablesToolName
    /\ pc = "awaitCatalog"
    /\ \E resp \in FailedResponses
                  \cup {OkResponse(b) : b \in CatalogBodies(local.candidateIds[local.i])} :
       LET tableId == local.candidateIds[local.i]
           data == fetchAndValidate(resp, "catalogTableResponseSchema")
           catalogData == fetchCatalogMetadata(data)
           rows == pushEnriched(local.enrichedResults, tableId, catalogData)
       IN /\ gatewayLog' = Append(gatewayLog, [context |-> "catalogFetch", tableId |-> tableId,
                                               returned |-> catalogData])
          /\ enrichmentStep(local.candidateIds, local.i, rows, resp)
    /\ UNCHANGED <<eventLoop, tool, input, logicOutcome, envelope>>

\* findTablesLogic: null stays null, the rows are validated against the
\* output schema.
FindTablesLogicReturn ==
    /\ tool = findStatlineTablesToolName
    /\ pc = "queryReturned"
    /\ logicOutcome' = [kind |-> "returned",
                        result |-> IF queryResult = Null THEN Null
                                   ELSE findStatlineTablesOutputSchema(queryResult.value)]
    /\ pc' = "logicReturned"
    /\ UNCHANGED <<eventLoop, tool, input, requests, outstanding, gatewayLog, local,
                   queryResult, envelope>>

----------------------------------------------------------------------------
(* Execution wrapper *)

\* A non-null value JSON.stringify cannot serialise (a cyclic object)
Cyclic == [isNull |-> FALSE, cyclic |-> TRUE]

\* JSON.stringify(resultData, null, 2): throws on a value that cannot be
\* serialised, otherwise the text of the value
JSONstringify(resultData) ==
    IF Has(resultData, "cyclic") THEN [threw |-> TRUE]
    ELSE [threw |-> FALSE, text |-> <<"JSON", resultData.value>>]

errorEnvelope(text) == [isError |-> TRUE, content |-> <<[type |-> "text", text |-> text]>>]

\* Variant: the thrown error's message is not interpolated
unexpectedErrorText_generic(toolName, error) ==
    <<"An unexpected error occurred while executing tool '", toolName, "'.">>

\* The text of the envelope for an exception thrown by the execution function
unexpectedErrorText(toolName, error) ==
    <<"An unexpected error occurred while executing tool '", toolName, "': ",
      IF error.isError THEN error.message ELSE "Unknown error">>

\* Variant: an empty list is reported like the failure sentinel
handleToolExecution_emptyIsFailure(toolName, outcome) ==
    IF outcome.kind = "threw"
    THEN errorEnvelope(unexpectedErrorText(toolName, outcome.error))
    ELSE IF outcome.result = Null \/ outcome.result = Some(<<>>)
    THEN errorEnvelope(<<"Operation failed for tool '", toolName,
                         "'. CBS API might be unavailable or parameters might be invalid. Check server logs for details.">>)
    ELSE IF JSONstringify(outcome.result).threw
    THEN errorEnvelope(<<"Internal error: Failed to format result for tool '", toolName, "'.">>)
    ELSE [content |-> <<[type |-> "text", text |-> JSONstringify(outcome.result).text]>>]

\* The envelope handleToolExecution returns for the outcome of executionFn
handleToolExecution(toolName, outcome) ==
    IF outcome.kind = "threw"
    THEN errorEnvelope(unexpectedErrorText(toolName, outcome.error))
    ELSE IF outcome.result = Null
    THEN errorEnvelope(<<"Operation failed for tool '", toolName,
                         "'. CBS API might be unavailable or parameters might be invalid. Check server logs for details.">>)
    ELSE IF JSONstringify(outcome.result).threw
    THEN errorEnvelope(<<"Internal error: Failed to format result for tool '", toolName, "'.">>)
    ELSE [content |-> <<[type |-> "text", text |-> JSONstringify(outcome.result).text]>>]

\* handleToolExecution returns its envelope to the protocol layer.
HandleToolExecutionReturn ==
    /\ pc = "logicReturned"
    /\ envelope' = Append(envelope, handleToolExecution(tool, logicOutcome))
    /\ pc' = "done"
    /\ UNCHANGED <<eventLoop, tool, input, requests, outstanding, gatewayLog, local,
                   queryResult, logicOutcome>>

----------------------------------------------------------------------------
(* Specification of one search invocation *)

NoLocal == [none |-> TRUE]
NoOutcome == [kind |-> "none"]

InitSearch ==
    /\ tool = findStatlineTablesToolName
    /\ pc = "start"
    /\ input \in [query : StringsUpTo(Chars, MaxQueryLen), maxResults : 1..MaxResultsBound]
    /\ requests = <<>>
    /\ outstanding = {}
    /\ gatewayLog = <<>>
    /\ local = NoLocal
    /\ queryResult = NoOutcome
    /\ logicOutcome = NoOutcome
    /\ envelope = <<>>
    /\ eventLoop = SingleInvocation

NextSearch ==
    \/ FindStart
    \/ InitialSearchResponse
    \/ CatalogResponse
    \/ FindTablesLogicReturn
    \/ HandleToolExecutionReturn

SpecSearch == InitSearch /\ [][NextSearch]_vars

\* One search invocation in which every gateway call completes and the event
\* loop runs every continuation that is ready.  The number of gateway calls
\* depends on the query only through its having a token or not, so the queries
\* are the empty one and those of one character.
InitSearchFair ==
    /\ InitSearch
    /\ Len(input.query) <= 1

SpecSearchFair == InitSearchFair /\ [][NextSearch]_vars /\ WF_vars(NextSearch)

----------------------------------------------------------------------------
(* Specification of the execution wrapper around any execution function *)

ToolNames == {findStatlineTablesToolName, getStatlineTableMetadataToolName,
              queryStatlineDataToolName}

\* Messages of the Error objects an execution function may throw
ErrorMessages == {"connect ECONNREFUSED 10.0.0.7:443",
                  "Cannot read properties of undefined (reading 'value')"}

\* What a thrown value is: an Error with a message, or any other value
ThrownValues == {[isError |-> TRUE, message |-> m] : m \in ErrorMessages}
                \cup {[isError |-> FALSE]}

\* The ways an execution function settles: it returns null, a serialisable
\* value, a value JSON.stringify throws on, or it throws.
ExecutionOutcomes ==
    {[kind |-> "returned", result |-> Null], [kind |-> "returned", result |-> Cyclic]}
    \cup {[kind |-> "returned", result |-> Some(v)] :
            v \in StringsUpTo({"row1", "row2"}, MaxPayloadLen)}
    \cup {[kind |-> "threw", error |-> e] : e \in ThrownValues}

\* handleToolExecution is called and awaits executionFn(input).
ExecutionStart ==
    /\ pc = "start"
    /\ pc' = "executing"
    /\ UNCHANGED <<eventLoop, tool, input, requests, outstanding, gatewayLog, local, queryResult,
                   logicOutcome, envelope>>

\* executionFn settles.
ExecutionSettles ==
    /\ pc = "executing"
    /\ \E outcome \in ExecutionOutcomes : logicOutcome' = outcome
    /\ pc' = "logicReturned"
    /\ UNCHANGED <<eventLoop, tool, input, requests, outstanding, gatewayLog, local,
                   queryResult, envelope>>

InitWrapper ==
    /\ tool \in ToolNames
    /\ pc = "start"
    /\ input = [any |-> TRUE]
    /\ requests = <<>>
    /\ outstanding = {}
    /\ gatewayLog = <<>>
    /\ local = NoLocal
    /\ queryResult = NoOutcome
    /\ logicOutcome = NoOutcome
    /\ envelope = <<>>
    /\ eventLoop = SingleInvocation

NextWrapper ==
    \/ ExecutionStart
    \/ ExecutionSettles
    \/ HandleToolExecutionReturn

SpecWrapper == InitWrapper /\ [][NextWrapper]_vars

----------------------------------------------------------------------------
(* Observation query pipeline *)

TableIds == {<<"8", "3", "6", "2", "5", "N", "E", "D">>}

FilterKeys == {"Perioden", "RegioS"}
FilterValues == StringsUpTo({"a", "'"}, MaxValueLen)

\* A filter mapping as the sequence of its entries in iteration order: the
\* keys are distinct
FilterMappings ==
    {m \in StringsUpTo([key : FilterKeys, value : FilterValues], Cardinality(FilterKeys)) :
        \A i, j \in 1..Len(m) : i # j => m[i].key # m[j].key}

SelectLists == {<<>>, <<"Value">>, <<"Value", "RegioS">>}

\* Variant: the value is interpolated as it is
equalityClause_unescaped(key, value) == <<key, " eq '">> \o value \o <<"'">>

\* `${key} eq '${escapedValue}'`
equalityClause(key, value) == <<key, " eq '">> \o escapeQuotes(value) \o <<"'">>

observationFilterClauses(filters) ==
    join([i \in 1..Len(filters) |-> equalityClause(filters[i].key, filters[i].value)],
         <<" and ">>)

\* The request fetchObservationsFromCBS builds
observationsRequest(in) ==
    [endpoint |-> <<CBS_ODATA_BASE_URL>> \o in.tableId \o <<"/Observations">>,
     params |->
        [top |-> String(in.maxRows), format |-> <<"json">>]
        @@ Opt("filter", Len(in.filters) > 0 /\ observationFilterClauses(in.filters) # <<>>,
               observationFilterClauses(in.filters))
        @@ Opt("select", Has(in, "select") /\ Len(in.select) > 0,
               IF Has(in, "select")
               THEN join([i \in 1..Len(in.select) |-> <<in.select[i]>>], <<",">>)
               ELSE <<>>)]

\* Observation records the remote may return
ObservationRows == {[Perioden |-> "2023JJ00", Value |-> 17]}

ObservationBodies ==
    {[value |-> rows] : rows \in StringsUpTo(ObservationRows, MaxRowsReturned)}
    \cup {[error |-> "unexpected shape"]}

\* Variant: an empty record list is reported as a failure
fetchObservationsFromCBS_emptyIsFailure(data) ==
    IF data = Null \/ Len(data.value.value) = 0 THEN Null ELSE Some(data.value.value)

\* What fetchObservationsFromCBS returns for the gateway's result: null for
\* !data?.value, otherwise data.value (an empty array is not falsy)
fetchObservationsFromCBS(data) ==
    IF data = Null THEN Null ELSE Some(data.value.value)

\* handleToolExecution calls queryDataLogic, which calls
\* fetchObservationsFromCBS: it builds the URL and awaits the gateway.
ObservationsStart ==
    /\ tool = queryStatlineDataToolName
    /\ pc = "start"
    /\ requests' = Append(requests, observationsRequest(input))
    /\ outstanding' = {Len(requests) + 1}
    /\ pc' = "awaitObservations"
    /\ UNCHANGED <<eventLoop, tool, input, gatewayLog, local, queryResult, logicOutcome, envelope>>

\* The gateway call completes and fetchObservationsFromCBS returns.
ObservationsResponse ==
    /\ tool = queryStatlineDataToolName
    /\ pc = "awaitObservations"
    /\ \E resp \in FailedResponses \cup {OkResponse(b) : b \in ObservationBodies} :
        LET data == fetchAndValidate(resp, "cbsObservationsResponseSchema") IN
        /\ gatewayLog' = Append(gatewayLog, [context |-> "observations", returned |-> data])
        /\ queryResult' = fetchObservationsFromCBS(data)
    /\ outstanding' = {}
    /\ pc' = "queryReturned"
    /\ UNCHANGED <<eventLoop, tool, input, requests, local, logicOutcome, envelope>>

\* queryDataLogic: null stays null, the rows are validated against the output
\* schema.
QueryDataLogicReturn ==
    /\ tool = queryStatlineDataToolName
    /\ pc = "queryReturned"
    /\ logicOutcome' = [kind |-> "returned",
                        result |-> IF queryResult = Null THEN Null
                                   ELSE queryStatlineDataOutputSchema(queryResult.value)]
    /\ pc' = "logicReturned"
    /\ UNCHANGED <<eventLoop, tool, input, requests, outstanding, gatewayLog, local,
                   queryResult, envelope>>

InitObservations ==
    /\ tool = queryStatlineDataToolName
    /\ pc = "start"
    /\ input \in [tableId : TableIds, filters : FilterMappings, maxRows : 1..MaxRowsBound]
                 \cup [tableId : TableIds, filters : FilterMappings, maxRows : 1..MaxRowsBound,
                       select : SelectLists]
    /\ requests = <<>>
    /\ outstanding = {}
    /\ gatewayLog = <<>>
    /\ local = NoLocal
    /\ queryResult = NoOutcome
    /\ logicOutcome = NoOutcome
    /\ envelope = <<>>
    /\ eventLoop = SingleInvocation

NextObservations ==
    \/ ObservationsStart
    \/ ObservationsResponse
    \/ QueryDataLogicReturn
    \/ HandleToolExecutionReturn

SpecObservations == InitObservations /\ [][NextObservations]_vars

----------------------------------------------------------------------------
(* Table metadata aggregator *)

MAX_DESC_LENGTH_DIM_MEASURE == 250
maxCodes == 5

\* undefined, for an optional value that is left out of the output
Undefined == [isUndefined |-> TRUE]

\* A fetch that has not completed yet
Pending == [pending |-> TRUE]

\* Raw records the /Properties endpoint may answer with: known and unknown
\* keys, no known key at all, and a timestamp the schema rejects
PropertiesBodies ==
    {[Title |-> "Bevolking", Status |-> "Regulier", Modified |-> "2024-05-01T02:00:00+02:00",
      Catalog |-> "CBS"],
     [Identifier |-> "83625NED"],
     [Title |-> "Bevolking", Modified |-> "yesterday"]}

\* Dimension records the /Dimensions endpoint may return
DimensionPool ==
    {[Identifier |-> "Perioden", Title |-> "Perioden", Description |-> <<"p">>,
      Kind |-> "TimeDimension", CodesUrl |-> Some("https://datasets.cbs.nl/odata/v1/CBS/83625NED/PeriodenCodes")],
     [Identifier |-> "RegioS", Title |-> "Regio's",
      CodesUrl |-> Some("https://datasets.cbs.nl/odata/v1/CBS/83625NED/RegioSCodes"),
      Position |-> 2],
     [Identifier |-> "Onderwerp", Title |-> "Onderwerp", Description |-> <<>>,
      Kind |-> "Topic", CodesUrl |-> Some("https://datasets.cbs.nl/odata/v1/CBS/83625NED/OnderwerpCodes")],
     [Identifier |-> "Measure", Title |-> "Measure", Kind |-> "Measure", CodesUrl |-> Null],
     [Identifier |-> "Marges", Title |-> "Marges", Kind |-> "Dimension"]}

\* Bodies the /Dimensions endpoint may answer with: a list of dimensions with
\* different identifiers, or an unexpected shape
DimensionsBodies ==
    {[value |-> dims] :
        dims \in {l \in StringsUpTo(DimensionPool, MaxDims) :
                    \A i, j \in 1..Len(l) : l[i] = l[j] => i = j}}
    \cup {[error |-> "unexpected shape"]}

\* Code records a /*Codes endpoint may return
CodeNames == <<"2023JJ00", "2022JJ00", "2021JJ00", "2020JJ00", "2019JJ00", "2018JJ00",
               "2017JJ00", "2016JJ00">>

CodesBodies ==
    {[value |-> <<>>],
     [value |-> <<[Identifier |-> "2023JJ00", Title |-> "2023"],
                  [Identifier |-> "2022JJ00", Title |-> "2022", Description |-> "jaar"]>>],
     [value |-> [i \in 1..MaxCodesReturned |-> [Identifier |-> CodeNames[i], Title |-> "jaar"]]],
     [error |-> "unexpected shape"]}

\* Records the /DataProperties endpoint may return
DataPropertyPool ==
    {[Key |-> "Bevolking_1", Title |-> "Bevolking", Description |-> Some(<<"b">>),
      Type |-> "Topic", Unit |-> "aantal", Decimals |-> 0],
     [Key |-> "RegioS", Title |-> "Regio's", Description |-> Null, Type |-> "GeoDimension"],
     [Key |-> "Dichtheid_2", Title |-> "Dichtheid", Type |-> "Topic"]}

\* Bodies the /DataProperties endpoint may answer with: a list of data
\* properties with different keys, or an unexpected shape
DataPropertiesBodies ==
    {[value |-> props] :
        props \in {l \in StringsUpTo(DataPropertyPool, MaxDataProperties) :
                     \A i, j \in 1..Len(l) : l[i] = l[j] => i = j}}
    \cup {[error |-> "unexpected shape"]}

\* The allow-list of fetchTablePropertiesFromCBS
PropertyAllowList == {"Title", "Description", "Modified", "Summary", "ShortDescription",
                      "Status", "Frequency"}

\* Variant: the raw record is returned as it is
fetchTablePropertiesFromCBS_copiesAll(rawData) == rawData

\* fetchTablePropertiesFromCBS on the gateway's result: the allow-listed keys
\* are copied and the undefined ones deleted
fetchTablePropertiesFromCBS(rawData) ==
    IF rawData = Null THEN Null
    ELSE Some([k \in DOMAIN rawData.value \cap PropertyAllowList |-> rawData.value[k]])

\* fetchTableDimensionsFromCBS, fetchDataPropertiesFromCBS and
\* fetchDimensionSampleCodesFromCBS on the gateway's result: data.value, or
\* null
valueOrNull(data) == IF data = Null THEN Null ELSE Some(data.value.value)

propertiesRequest(tableId) ==
    [endpoint |-> <<CBS_ODATA_BASE_URL>> \o tableId \o <<"/Properties">>,
     params |-> [format |-> <<"json">>]]
dimensionsRequest(tableId) ==
    [endpoint |-> <<CBS_ODATA_BASE_URL>> \o tableId \o <<"/Dimensions">>,
     params |-> [format |-> <<"json">>]]
dataPropertiesRequest(tableId) ==
    [endpoint |-> <<"https://opendata.cbs.nl/ODataApi/OData/">> \o tableId \o <<"/DataProperties">>,
     params |-> [format |-> <<"json">>]]
sampleCodesRequest(codesUrl) ==
    [endpoint |-> <<codesUrl>>,
     params |-> [top |-> String(maxCodes), select |-> <<"Identifier,Title,Description">>,
                 format |-> <<"json">>]]

\* Variant: every dimension with a codes reference gets a sample-codes fetch,
\* whatever its kind
fetchesSampleCodes_ignoresKind(dim) == Has(dim, "CodesUrl") /\ dim.CodesUrl # Null

\* typeof dim.CodesUrl === "string" && dim.Kind !== "Measure" && dim.Kind !== "Topic"
fetchesSampleCodes(dim) ==
    /\ Has(dim, "CodesUrl") /\ dim.CodesUrl # Null
    /\ ~Has(dim, "Kind") \/ dim.Kind \notin {"Measure", "Topic"}

\* Variant: a description of exactly the maximal length is truncated as well
truncate_offByOne(description) ==
    IF Len(description) >= MAX_DESC_LENGTH_DIM_MEASURE
    THEN SubSeq(description, 1, MAX_DESC_LENGTH_DIM_MEASURE) \o <<".", ".", ".">>
    ELSE description

\* description.length > MAX ? `${description.substring(0, MAX)}...` : description
truncate(description) ==
    IF Len(description) > MAX_DESC_LENGTH_DIM_MEASURE
    THEN SubSeq(description, 1, MAX_DESC_LENGTH_DIM_MEASURE) \o <<".", ".", ".">>
    ELSE description

\* truncatedDescription of a dimension: undefined for a missing or empty
\* (falsy) description
dimensionDescription(dim) ==
    IF Has(dim, "Description") /\ Len(dim.Description) > 0
    THEN Some(truncate(dim.Description)) ELSE Undefined

\* truncatedDescription of a data property: undefined for a missing, null or
\* empty (falsy) description
measureDescription(prop) ==
    IF Has(prop, "Description") /\ prop.Description # Null /\ Len(prop.Description.value) > 0
    THEN Some(truncate(prop.Description.value)) ELSE Undefined

\* Variant: a failed sample-codes fetch leaves an empty sampleCodes list
processedDimension_emptyOnFailure(dim, codes) ==
    [key |-> dim.Identifier, title |-> dim.Title]
    @@ Opt("description", dimensionDescription(dim) # Undefined,
           IF dimensionDescription(dim) # Undefined THEN dimensionDescription(dim).value ELSE <<>>)
    @@ Opt("sampleCodes", codes # Undefined,
           IF codes # Undefined /\ codes # Null
           THEN [i \in 1..Len(codes.value) |->
                    [id |-> codes.value[i].Identifier, title |-> codes.value[i].Title]]
           ELSE <<>>)

\* The entry pushed for a dimension; codes is the result of its sample-codes
\* fetch, Undefined when none was made, Null when it failed
processedDimension(dim, codes) ==
    [key |-> dim.Identifier, title |-> dim.Title]
    @@ Opt("description", dimensionDescription(dim) # Undefined,
           IF dimensionDescription(dim) # Undefined THEN dimensionDescription(dim).value ELSE <<>>)
    @@ Opt("sampleCodes", codes # Undefined /\ codes # Null,
           IF codes # Undefined /\ codes # Null
           THEN [i \in 1..Len(codes.value) |->
                    [id |-> codes.value[i].Identifier, title |-> codes.value[i].Title]]
           ELSE <<>>)

\* The entry of a data property in the measures list
measureOf(prop) ==
    [key |-> prop.Key, title |-> prop.Title]
    @@ Opt("description", measureDescription(prop) # Undefined,
           IF measureDescription(prop) # Undefined THEN measureDescription(prop).value ELSE <<>>)
    @@ Opt("unit", Has(prop, "Unit"), IF Has(prop, "Unit") THEN prop.Unit ELSE "")
    @@ Opt("decimals", Has(prop, "Decimals"), IF Has(prop, "Decimals") THEN prop.Decimals ELSE 0)

\* Variant: every data property becomes a measure
measuresOf_noFilter(dataProperties) ==
    IF dataProperties = Null THEN <<>>
    ELSE [i \in 1..Len(dataProperties.value) |-> measureOf(dataProperties.value[i])]

\* dataProperties.filter(Type === "Topic").map(...), or [] when the fetch failed
measuresOf(dataProperties) ==
    IF dataProperties = Null THEN <<>>
    ELSE LET topics == SelectSeq(dataProperties.value, LAMBDA prop : prop.Type = "Topic")
         IN [i \in 1..Len(topics) |-> measureOf(topics[i])]

\* Variant: only a failed dimension-list fetch makes the operation fail
essentialFailed_dimensionsOnly(properties, dimensions) == dimensions = Null

\* Variant: the operation fails only when both essential fetches failed
essentialFailed_both(properties, dimensions) == properties = Null /\ dimensions = Null

\* !properties || !dimensions
essentialFailed(properties, dimensions) == properties = Null \/ dimensions = Null

\* Variant: a dimension without a sample-codes fetch pushes no entry
startDimensions_dropsSkipped(dimensions, i, acc) ==
    LET qualifying == SelectSeq([k \in 1..Len(dimensions) |-> k],
                                LAMBDA k : fetchesSampleCodes(dimensions[k]))
    IN [pushed |-> <<>>,
        issued |-> [j \in 1..Len(qualifying) |->
                       sampleCodesRequest(dimensions[qualifying[j]].CodesUrl.value)],
        dimOf |-> qualifying]

\* Variant: only the first qualifying dimension gets its sample-codes fetch
\* in the synchronous pass
startDimensions_firstOnly(dimensions, i, acc) ==
    LET qualifying == {k \in 1..Len(dimensions) : fetchesSampleCodes(dimensions[k])}
        first == CHOOSE k \in qualifying : \A j \in qualifying : k <= j
        others == SelectSeq(dimensions, LAMBDA dim : ~fetchesSampleCodes(dim))
    IN [pushed |-> [k \in 1..Len(others) |-> processedDimension(others[k], Undefined)],
        issued |-> IF qualifying = {} THEN <<>>
                   ELSE <<sampleCodesRequest(dimensions[first].CodesUrl.value)>>,
        dimOf |-> IF qualifying = {} THEN <<>> ELSE <<first>>]

\* The synchronous part of dimensions.map(async ...): the callbacks run in
\* dimension order, each up to its first await.  A dimension without a
\* sample-codes fetch has no await and pushes its entry at once; the others
\* issue their request.  The result is the entries pushed, the requests issued
\* and the dimension each request belongs to.
RECURSIVE startDimensions(_, _, _)
startDimensions(dimensions, i, acc) ==
    IF i > Len(dimensions) THEN acc
    ELSE IF fetchesSampleCodes(dimensions[i])
    THEN startDimensions(dimensions, i + 1,
            [acc EXCEPT !.issued = Append(@, sampleCodesRequest(dimensions[i].CodesUrl.value)),
                        !.dimOf = Append(@, i)])
    ELSE startDimensions(dimensions, i + 1,
            [acc EXCEPT !.pushed = Append(@, processedDimension(dimensions[i], Undefined))])

\* handleToolExecution calls getMetadataLogic: the three fetches are started
\* and awaited jointly.
MetadataStart ==
    /\ tool = getStatlineTableMetadataToolName
    /\ pc = "start"
    /\ requests' = requests \o <<propertiesRequest(input.tableId), dimensionsRequest(input.tableId),
                                 dataPropertiesRequest(input.tableId)>>
    /\ outstanding' = {Len(requests) + 1, Len(requests) + 2, Len(requests) + 3}
    /\ local' = [properties |-> Pending, dimensions |-> Pending, dataProperties |-> Pending,
                 rawData |-> Pending]
    /\ pc' = "awaitFacets"
    /\ UNCHANGED <<eventLoop, tool, input, gatewayLog, queryResult, logicOutcome, envelope>>

\* The /Properties fetch completes.
PropertiesResponse ==
    /\ tool = getStatlineTableMetadataToolName
    /\ pc = "awaitFacets"
    /\ 1 \in outstanding
    /\ \E resp \in FailedResponses \cup {OkResponse(b) : b \in PropertiesBodies} :
          LET rawData == fetchAndValidate(resp, "cbsPropertiesResponseSchema") IN
          local' = [local EXCEPT !.rawData = rawData,
                                 !.properties = fetchTablePropertiesFromCBS(rawData)]
    /\ outstanding' = outstanding \ {1}
    /\ UNCHANGED <<eventLoop, tool, pc, input, requests, gatewayLog, queryResult, logicOutcome,
                   envelope>>

\* The /Dimensions fetch completes.
DimensionsResponse ==
    /\ tool = getStatlineTableMetadataToolName
    /\ pc = "awaitFacets"
    /\ 2 \in outstanding
    /\ \E resp \in FailedResponses \cup {OkResponse(b) : b \in DimensionsBodies} :
          local' = [local EXCEPT !.dimensions =
                        valueOrNull(fetchAndValidate(resp, "cbsDimensionsResponseSchema"))]
    /\ outstanding' = outstanding \ {2}
    /\ UNCHANGED <<eventLoop, tool, pc, input, requests, gatewayLog, queryResult, logicOutcome,
                   envelope>>

\* The /DataProperties fetch completes.
DataPropertiesResponse ==
    /\ tool = getStatlineTableMetadataToolName
    /\ pc = "awaitFacets"
    /\ 3 \in outstanding
    /\ \E resp \in FailedResponses \cup {OkResponse(b) : b \in DataPropertiesBodies} :
          local' = [local EXCEPT !.dataProperties =
                        valueOrNull(fetchAndValidate(resp, "cbsDataPropertiesResponseSchema"))]
    /\ outstanding' = outstanding \ {3}
    /\ UNCHANGED <<eventLoop, tool, pc, input, requests, gatewayLog, queryResult, logicOutcome,
                   envelope>>

\* Promise.all of the three fetches resolves: getMetadataLogic returns null
\* when an essential fetch failed, otherwise processDimensionsWithSampleCodes
\* starts.
FacetsJoined ==
    /\ tool = getStatlineTableMetadataToolName
    /\ pc = "awaitFacets"
    /\ outstanding = {}
    /\ IF essentialFailed(local.properties, local.dimensions)
       THEN /\ logicOutcome' = [kind |-> "returned", result |-> Null]
            /\ pc' = "logicReturned"
            /\ UNCHANGED <<requests, outstanding, local>>
       ELSE LET started == startDimensions(local.dimensions.value, 1,
                                [pushed |-> <<>>, issued |-> <<>>, dimOf |-> <<>>])
            IN /\ requests' = requests \o started.issued
               /\ outstanding' = {Len(requests) + k : k \in 1..Len(started.issued)}
               /\ local' = [properties |-> local.properties, dimensions |-> local.dimensions,
                            dataProperties |-> local.dataProperties,
                            rawData |-> local.rawData,
                            firstSample |-> Len(requests) + 1, dimOf |-> started.dimOf,
                            processedDimensions |-> started.pushed]
               /\ pc' = "awaitSampleCodes"
               /\ UNCHANGED logicOutcome
    /\ UNCHANGED <<eventLoop, tool, input, gatewayLog, queryResult, envelope>>

\* One of the outstanding sample-codes fetches completes; its callback pushes
\* the entry of its dimension.
SampleCodesResponse ==
    /\ tool = getStatlineTableMetadataToolName
    /\ pc = "awaitSampleCodes"
    /\ \E r \in outstanding :
       \E resp \in FailedResponses \cup {OkResponse(b) : b \in CodesBodies} :
          LET dim == local.dimensions.value[local.dimOf[r - local.firstSample + 1]]
              codes == valueOrNull(fetchAndValidate(resp, "cbsCodesResponseSchema"))
          IN /\ local' = [local EXCEPT !.processedDimensions =
                                          Append(@, processedDimension(dim, codes))]
             /\ gatewayLog' = Append(gatewayLog,
                                     [context |-> "sampleCodes",
                                      dimension |-> local.dimOf[r - local.firstSample + 1],
                                      returned |-> codes])
             /\ outstanding' = outstanding \ {r}
    /\ UNCHANGED <<eventLoop, tool, pc, input, requests, queryResult, logicOutcome, envelope>>

\* Promise.all of the dimension callbacks resolves: the measures are
\* extracted, the document is assembled and validated, getMetadataLogic
\* returns.
MetadataAssemble ==
    /\ tool = getStatlineTableMetadataToolName
    /\ pc = "awaitSampleCodes"
    /\ outstanding = {}
    /\ LET output == [tableId |-> input.tableId, properties |-> local.properties.value,
                      dimensions |-> local.processedDimensions,
                      measures |-> measuresOf(local.dataProperties)]
       IN logicOutcome' = [kind |-> "returned",
                           result |-> getStatlineTableMetadataOutputSchema(output)]
    /\ pc' = "logicReturned"
    /\ UNCHANGED <<eventLoop, tool, input, requests, outstanding, gatewayLog, local,
                   queryResult, envelope>>

InitMetadata ==
    /\ tool = getStatlineTableMetadataToolName
    /\ pc = "start"
    /\ input \in [tableId : TableIds]
    /\ requests = <<>>
    /\ outstanding = {}
    /\ gatewayLog = <<>>
    /\ local = NoLocal
    /\ queryResult = NoOutcome
    /\ logicOutcome = NoOutcome
    /\ envelope = <<>>
    /\ eventLoop = SingleInvocation

NextMetadata ==
    \/ MetadataStart
    \/ PropertiesResponse
    \/ DimensionsResponse
    \/ DataPropertiesResponse
    \/ FacetsJoined
    \/ SampleCodesResponse
    \/ MetadataAssemble
    \/ HandleToolExecutionReturn

SpecMetadata == InitMetadata /\ [][NextMetadata]_vars

----------------------------------------------------------------------------
(* Specification of the description handling of one dimension record and *)
(* one data-property record                                              *)

\* Descriptions of every length up to the bound, in two fillings; the second
\* one has dots of its own
DescriptionText(n, filling) ==
    [i \in 1..n |-> IF filling = 1 THEN "x" ELSE IF i % 2 = 0 THEN "." ELSE "y"]

DescriptionInputs ==
    {[kind |-> "string", text |-> DescriptionText(n, f)] : n \in 0..MaxDescLen, f \in {1, 2}}
    \cup {[kind |-> "absent"], [kind |-> "null"]}

\* The dimension record and the data-property record with the description
dimensionWith(in) ==
    [Identifier |-> "Perioden", Title |-> "Perioden", Kind |-> "TimeDimension"]
    @@ Opt("Description", in.kind = "string", IF in.kind = "string" THEN in.text ELSE <<>>)
dataPropertyWith(in) ==
    [Key |-> "Bevolking_1", Title |-> "Bevolking", Type |-> "Topic"]
    @@ Opt("Description", in.kind # "absent",
           IF in.kind = "string" THEN Some(in.text) ELSE Null)

\* The callback of processDimensionsWithSampleCodes builds the entry of the
\* dimension (cbsDimensionSchema admits no null description).
ProcessDimension ==
    /\ tool = "description"
    /\ input.kind # "null"
    /\ local.dimension = Pending
    /\ local' = [local EXCEPT !.dimension = processedDimension(dimensionWith(input), Undefined)]
    /\ UNCHANGED <<eventLoop, tool, pc, input, requests, outstanding, gatewayLog, queryResult,
                   logicOutcome,
                   envelope>>

\* getMetadataLogic maps the data property to its measure.
ProcessMeasure ==
    /\ tool = "description"
    /\ local.measure = Pending
    /\ local' = [local EXCEPT !.measure = measureOf(dataPropertyWith(input))]
    /\ UNCHANGED <<eventLoop, tool, pc, input, requests, outstanding, gatewayLog, queryResult,
                   logicOutcome,
                   envelope>>

InitDescription ==
    /\ tool = "description"
    /\ pc = "start"
    /\ input \in DescriptionInputs
    /\ requests = <<>>
    /\ outstanding = {}
    /\ gatewayLog = <<>>
    /\ local = [dimension |-> Pending, measure |-> Pending]
    /\ queryResult = NoOutcome
    /\ logicOutcome = NoOutcome
    /\ envelope = <<>>
    /\ eventLoop = SingleInvocation

NextDescription ==
    \/ ProcessDimension
    \/ ProcessMeasure

SpecDescription == InitDescription /\ [][NextDescription]_vars

----------------------------------------------------------------------------
(* Specification of one call of the fetch-and-validate gateway *)

SchemaNames == {"cbsDatasetSearchResponseSchema", "catalogTableResponseSchema",
                "cbsObservationsResponseSchema", "cbsPropertiesResponseSchema",
                "cbsDimensionsResponseSchema", "cbsCodesResponseSchema",
                "cbsDataPropertiesResponseSchema"}

\* JSON bodies the endpoint validated by a schema may answer with
BodiesFor(schema) ==
    CASE schema = "cbsDatasetSearchResponseSchema" -> SearchBodies
      [] schema = "catalogTableResponseSchema" -> UNION {CatalogBodies(id) : id \in Ids}
      [] schema = "cbsObservationsResponseSchema" -> ObservationBodies
      [] schema = "cbsPropertiesResponseSchema" -> PropertiesBodies
      [] schema = "cbsDimensionsResponseSchema" -> DimensionsBodies
      [] schema = "cbsCodesResponseSchema" -> CodesBodies
      [] schema = "cbsDataPropertiesResponseSchema" -> DataPropertiesBodies

\* fetchAndValidate issues its GET and awaits the response.
GatewayFetch ==
    /\ tool = "fetchAndValidate"
    /\ pc = "start"
    /\ requests' = Append(requests, [method |-> "GET", headers |-> [Accept |-> "application/json"],
                                     context |-> input.context])
    /\ outstanding' = {Len(requests) + 1}
    /\ pc' = "awaitFetch"
    /\ UNCHANGED <<eventLoop, tool, input, gatewayLog, local, queryResult, logicOutcome, envelope>>

\* The GET settles (the promise rejects, or a response with a status and a
\* body arrives) and fetchAndValidate returns.
GatewaySettles ==
    /\ tool = "fetchAndValidate"
    /\ pc = "awaitFetch"
    /\ \E resp \in FailedResponses \cup {OkResponse(b) : b \in BodiesFor(input.schema)} :
        /\ local' = [response |-> resp]
        /\ queryResult' = [kind |-> "returned", result |-> fetchAndValidate(resp, input.schema)]
    /\ outstanding' = {}
    /\ pc' = "settled"
    /\ UNCHANGED <<eventLoop, tool, input, requests, gatewayLog, logicOutcome, envelope>>

InitGateway ==
    /\ tool = "fetchAndValidate"
    /\ pc = "start"
    /\ input \in [schema : SchemaNames, context : {"query", "logic"}]
    /\ requests = <<>>
    /\ outstanding = {}
    /\ gatewayLog = <<>>
    /\ local = NoLocal
    /\ queryResult = NoOutcome
    /\ logicOutcome = NoOutcome
    /\ envelope = <<>>
    /\ eventLoop = SingleInvocation

NextGateway ==
    \/ GatewayFetch
    \/ GatewaySettles

SpecGateway == InitGateway /\ [][NextGateway]_vars

----------------------------------------------------------------------------
(* Specification of two tool invocations in progress at once *)

Invocations == {1, 2}

\* The tools called concurrently, a search and an observation query in either
\* order, and the input of each
ConcurrentTools == {findStatlineTablesToolName, queryStatlineDataToolName}
ConcurrentInput(toolName) ==
    IF toolName = findStatlineTablesToolName
    THEN [query |-> <<"A">>, maxResults |-> 1]
    ELSE [tableId |-> <<"8", "3", "6", "2", "5", "N", "E", "D">>, filters |-> <<>>, maxRows |-> 1]

\* The state of an invocation that has been called and has not run yet
FreshInvocation(toolName) ==
    [tool |-> toolName, pc |-> "start", input |-> ConcurrentInput(toolName), requests |-> <<>>,
     outstanding |-> {}, gatewayLog |-> <<>>, local |-> NoLocal, queryResult |-> NoOutcome,
     logicOutcome |-> NoOutcome, envelope |-> <<>>]

\* The state of the running invocation, as it is kept while it is suspended
RunningInvocation ==
    [tool |-> tool, pc |-> pc, input |-> input, requests |-> requests,
     outstanding |-> outstanding, gatewayLog |-> gatewayLog, local |-> local,
     queryResult |-> queryResult, logicOutcome |-> logicOutcome, envelope |-> envelope]

\* Variant: the result of the query function is kept in one place for all
\* invocations
resumed_sharedResult(k) == [eventLoop.suspended[k] EXCEPT !.queryResult = queryResult]

\* The state invocation k continues with: its own, as it was suspended
resumed(k) == eventLoop.suspended[k]

\* The running invocation waits at an await, or has returned, and the event
\* loop continues with invocation k, which has not returned yet.
SwitchTo(k) ==
    /\ k \in DOMAIN eventLoop.suspended
    /\ eventLoop.suspended[k].pc # "done"
    /\ tool' = resumed(k).tool
    /\ pc' = resumed(k).pc
    /\ input' = resumed(k).input
    /\ requests' = resumed(k).requests
    /\ outstanding' = resumed(k).outstanding
    /\ gatewayLog' = resumed(k).gatewayLog
    /\ local' = resumed(k).local
    /\ queryResult' = resumed(k).queryResult
    /\ logicOutcome' = resumed(k).logicOutcome
    /\ envelope' = resumed(k).envelope
    /\ eventLoop' = [running |-> k,
                     suspended |-> [j \in (DOMAIN eventLoop.suspended \ {k}) \cup {eventLoop.running} |->
                                      IF j = eventLoop.running THEN RunningInvocation
                                      ELSE eventLoop.suspended[j]]]

Switch == \E k \in Invocations : SwitchTo(k)

InitConcurrent ==
    /\ tool \in ConcurrentTools
    /\ pc = "start"
    /\ input = ConcurrentInput(tool)
    /\ requests = <<>>
    /\ outstanding = {}
    /\ gatewayLog = <<>>
    /\ local = NoLocal
    /\ queryResult = NoOutcome
    /\ logicOutcome = NoOutcome
    /\ envelope = <<>>
    /\ \E other \in ConcurrentTools \ {tool} :
          eventLoop = [running |-> 1, suspended |-> [j \in {2} |-> FreshInvocation(other)]]

\* A step of the code of the running invocation
InvocationStep ==
    \/ FindStart
    \/ InitialSearchResponse
    \/ CatalogResponse
    \/ FindTablesLogicReturn
    \/ ObservationsStart
    \/ ObservationsResponse
    \/ QueryDataLogicReturn
    \/ HandleToolExecutionReturn

NextConcurrent ==
    \/ FindStart
    \/ InitialSearchResponse
    \/ CatalogResponse
    \/ FindTablesLogicReturn
    \/ ObservationsStart
    \/ ObservationsResponse
    \/ QueryDataLogicReturn
    \/ HandleToolExecutionReturn
    \/ Switch

\* Every gateway call of invocation 2 completes and the event loop runs its
\* continuations; nothing is required of invocation 1, whose gateway calls
\* may never complete.
SpecConcurrent ==
    /\ InitConcurrent
    /\ [][NextConcurrent]_vars
    /\ WF_vars(SwitchTo(2))
    /\ SF_vars(InvocationStep /\ eventLoop.running = 2)

----------------------------------------------------------------------------
(* Properties of the search pipeline *)

\* The states in which fetchAndEnrichDatasetsFromCBS has returned
SearchReturned == tool = findStatlineTablesToolName /\ pc \in {"queryReturned", "logicReturned", "done"}

\* A raw query without any non-whitespace character
ZeroTokens(query) == \A i \in 1..Len(query) : IsWhitespace(query[i])

\* C1: a query that reduces to zero tokens (empty or whitespace only) makes
\* fetchAndEnrichDatasetsFromCBS return the empty list, and no gateway call is
\* issued at any point of the invocation.
C1_EmptyQueryNoGatewayCall ==
    (tool = findStatlineTablesToolName /\ ZeroTokens(input.query)) =>
        /\ requests = <<>>
        /\ gatewayLog = <<>>
        /\ outstanding = {}
        /\ pc # "start" => queryResult = Some(<<>>)

C1_Witness ==
    /\ SearchReturned
    /\ Len(input.query) = MaxQueryLen
    /\ ZeroTokens(input.query)
    /\ queryResult = Some(<<>>)

\* The gateway's result for the initial search, once it has completed
InitialFetchFailed == Len(gatewayLog) >= 1 /\ gatewayLog[1].returned = Null
InitialFetchEmpty ==
    /\ Len(gatewayLog) >= 1
    /\ gatewayLog[1].returned # Null
    /\ Len(gatewayLog[1].returned.value.value) = 0

\* C2: a gateway failure of the initial candidate fetch makes
\* fetchAndEnrichDatasetsFromCBS return null, a successful fetch with zero
\* matches makes it return the empty list.
C2_InitialFailureReturnsNull ==
    SearchReturned =>
        /\ InitialFetchFailed => queryResult = Null
        /\ InitialFetchEmpty => queryResult = Some(<<>>)

\* The completed catalog lookups, in the order they completed, and the
\* successful ones among them
CatalogLog == SelectSeq(gatewayLog, LAMBDA e : e.context = "catalogFetch")
CatalogSuccesses == SelectSeq(CatalogLog, LAMBDA e : e.returned # Null)

\* C3: for N candidates of which M are enriched successfully, the returned
\* list has exactly M rows: the k-th row is the summary of the k-th successful
\* candidate, in candidate order; a failed lookup contributes no row.
C3_OneRowPerSuccessInOrder ==
    (SearchReturned /\ Has(local, "candidateIds")) =>
        /\ Len(CatalogLog) = Len(local.candidateIds)
        /\ \A i \in 1..Len(CatalogLog) : CatalogLog[i].tableId = local.candidateIds[i]
        /\ queryResult # Null
        /\ Len(queryResult.value) = Len(CatalogSuccesses)
        /\ Len(queryResult.value) <= Len(local.candidateIds)
        /\ \A k \in 1..Len(CatalogSuccesses) :
              /\ queryResult.value[k].id = CatalogSuccesses[k].returned.value.Identifier
              /\ queryResult.value[k].id = CatalogSuccesses[k].tableId
        /\ pc \in {"logicReturned", "done"} => logicOutcome.result = queryResult

\* Two candidates with different identifiers, the first lookup failed, the
\* second succeeded
C3_Witness ==
    /\ SearchReturned
    /\ Has(local, "candidateIds")
    /\ Len(local.candidateIds) = MaxCandidates
    /\ local.candidateIds[1] # local.candidateIds[2]
    /\ CatalogLog[1].returned = Null
    /\ Len(CatalogSuccesses) = Len(CatalogLog) - 1
    /\ Len(queryResult.value) = MaxCandidates - 1

\* The tokens of a raw query, read off its positions: a token starts at a
\* non-whitespace character that is first or follows a whitespace character
\* and runs up to the next whitespace character or the end.
TokenStarts(query) ==
    {i \in 1..Len(query) : ~IsWhitespace(query[i]) /\ (i = 1 \/ IsWhitespace(query[i - 1]))}
TokenEnd(query, i) ==
    CHOOSE j \in i..Len(query) :
        /\ \A k \in i..j : ~IsWhitespace(query[k])
        /\ j = Len(query) \/ IsWhitespace(query[j + 1])
RECURSIVE SortedSeq(_)
SortedSeq(S) ==
    IF S = {} THEN <<>>
    ELSE LET m == CHOOSE x \in S : \A y \in S : x <= y IN <<m>> \o SortedSeq(S \ {m})
LowerChar(c) == IF c = "A" THEN "a" ELSE c
ExpectedTokens(query) ==
    LET starts == SortedSeq(TokenStarts(query)) IN
    [n \in 1..Len(starts) |->
        [k \in 1..(TokenEnd(query, starts[n]) - starts[n] + 1) |->
            LowerChar(query[starts[n] + k - 1])]]

\* A value with every single quote doubled
RECURSIVE Doubled(_)
Doubled(s) ==
    IF Len(s) = 0 THEN <<>>
    ELSE Doubled(SubSeq(s, 1, Len(s) - 1))
            \o (IF s[Len(s)] = "'" THEN <<"'", "'">> ELSE <<s[Len(s)]>>)

ExpectedClause(t) ==
    <<"(contains(tolower(Title),'">> \o Doubled(t) \o <<"') or contains(tolower(Description),'">>
        \o Doubled(t) \o <<"'))">>

RECURSIVE ExpectedSearchFilter(_, _)
ExpectedSearchFilter(tokens, n) ==
    IF n = 1 THEN ExpectedClause(tokens[1])
    ELSE ExpectedSearchFilter(tokens, n - 1) \o <<" and ">> \o ExpectedClause(tokens[n])

\* C9: for a non-empty token list the $filter of the initial search request
\* has exactly one (contains(tolower(Title),'t') or
\* contains(tolower(Description),'t')) clause per token, in token order, joined
\* by ' and ', t being the lower-cased token with its single quotes doubled.
C9_SearchFilterOneClausePerToken ==
    (tool = findStatlineTablesToolName /\ pc # "start" /\ ~ZeroTokens(input.query)) =>
        /\ Len(requests) >= 1
        /\ requests[1].endpoint = <<V1_DATASETS_ENDPOINT>>
        /\ requests[1].params.filter =
              ExpectedSearchFilter(ExpectedTokens(input.query), Len(ExpectedTokens(input.query)))

\* Two tokens, one of them with a single quote
C9_Witness ==
    /\ tool = findStatlineTablesToolName
    /\ Len(requests) >= 1
    /\ Len(ExpectedTokens(input.query)) = 2
    /\ \E n \in 1..2 : \E i \in 1..Len(ExpectedTokens(input.query)[n]) :
          ExpectedTokens(input.query)[n][i] = "'"

\* The string literal of a by-identifier filter: the chunks between the
\* opening "Identifier eq '" and the closing quote
CatalogLiteral(request) == SubSeq(request.params.filter, 2, Len(request.params.filter) - 1)

\* C10: the identifier literal of every by-identifier catalog lookup is the
\* (URL-encoded) identifier in single quotes with each internal single quote
\* doubled.
C10_CatalogLiteralQuotesDoubled ==
    (tool = findStatlineTablesToolName /\ Has(local, "candidateIds")) =>
        \A k \in 2..Len(requests) :
            /\ requests[k].endpoint = <<CATALOG_TABLES_ENDPOINT>>
            /\ Head(requests[k].params.filter) = "Identifier eq '"
            /\ requests[k].params.filter[Len(requests[k].params.filter)] = "'"
            /\ CatalogLiteral(requests[k]) = Doubled(encodeURIComponent(local.candidateIds[k - 1]))

----------------------------------------------------------------------------
(* Properties of the execution wrapper *)

\* The execution function has failed: it returned null, threw, or returned a
\* value that cannot be serialised
ExecutionFailed ==
    /\ logicOutcome.kind \in {"returned", "threw"}
    /\ logicOutcome.kind = "returned" => logicOutcome.result \in {Null, Cyclic}

Contains(text, chunk) == \E i \in 1..Len(text) : text[i] = chunk
EnvelopeText == envelope[1].content[1].text
NoDiagnostic(text) == \A m \in ErrorMessages : ~Contains(text, m)

\* C6 as stated: every failure of the execution function yields exactly one
\* error envelope whose text is a generic message naming the tool, with no
\* internal diagnostic such as the thrown error's message.
C6_FailureTextGeneric ==
    (pc = "done" /\ ExecutionFailed) =>
        /\ Len(envelope) = 1
        /\ Has(envelope[1], "isError") /\ envelope[1].isError
        /\ Len(envelope[1].content) = 1
        /\ Contains(EnvelopeText, tool)
        /\ NoDiagnostic(EnvelopeText)

\* C6 amended: every failure of the execution function yields exactly one
\* error envelope whose text names the tool; the text is a fixed message
\* without diagnostics for a null result, for an unserialisable result and
\* for a thrown non-Error value, and it ends with the thrown Error's message
\* when the execution function throws an Error.
C6_FailureEnvelope ==
    /\ Len(envelope) <= 1
    /\ (pc = "done" /\ ExecutionFailed) =>
        /\ Len(envelope) = 1
        /\ Has(envelope[1], "isError") /\ envelope[1].isError
        /\ Len(envelope[1].content) = 1
        /\ Contains(EnvelopeText, tool)
        /\ (logicOutcome.kind = "returned" /\ logicOutcome.result = Null) =>
              /\ EnvelopeText[1] = "Operation failed for tool '"
              /\ NoDiagnostic(EnvelopeText)
        /\ (logicOutcome.kind = "returned" /\ logicOutcome.result = Cyclic) =>
              /\ EnvelopeText[1] = "Internal error: Failed to format result for tool '"
              /\ NoDiagnostic(EnvelopeText)
        /\ (logicOutcome.kind = "threw" /\ ~logicOutcome.error.isError) =>
              /\ EnvelopeText[Len(EnvelopeText)] = "Unknown error"
              /\ NoDiagnostic(EnvelopeText)
        /\ (logicOutcome.kind = "threw" /\ logicOutcome.error.isError) =>
              EnvelopeText[Len(EnvelopeText)] = logicOutcome.error.message

\* The execution function threw an Error and the wrapper has returned
C6_Witness ==
    /\ pc = "done"
    /\ logicOutcome.kind = "threw"
    /\ logicOutcome.error.isError
    /\ Len(envelope) = 1

----------------------------------------------------------------------------
(* Properties of the observation pipeline *)

\* The filter expected for the first n entries of a mapping
RECURSIVE ExpectedEqualityFilter(_, _)
ExpectedEqualityFilter(m, n) ==
    LET clause == <<m[n].key, " eq '">> \o Doubled(m[n].value) \o <<"'">> IN
    IF n = 1 THEN clause ELSE ExpectedEqualityFilter(m, n - 1) \o <<" and ">> \o clause

\* The number a sequence of decimal digits denotes
DigitChars == <<"0", "1", "2", "3", "4", "5", "6", "7", "8", "9">>
RECURSIVE DecimalValue(_)
DecimalValue(digits) ==
    IF Len(digits) = 0 THEN 0
    ELSE 10 * DecimalValue(SubSeq(digits, 1, Len(digits) - 1))
            + (CHOOSE d \in 0..9 : DigitChars[d + 1] = digits[Len(digits)])

\* C8: the $filter of the observations request has exactly one clause
\* key eq 'value' per entry of the filter mapping, in iteration order, joined by
\* ' and ', with every single quote of a value doubled; for the empty mapping
\* there is no $filter parameter; in both cases $top is maxRows.
C8_EqualityFilterPerEntry ==
    (tool = queryStatlineDataToolName /\ pc # "start") =>
        /\ Len(requests) = 1
        /\ Len(input.filters) = 0 => ~Has(requests[1].params, "filter")
        /\ Len(input.filters) > 0 =>
              /\ Has(requests[1].params, "filter")
              /\ requests[1].params.filter =
                    ExpectedEqualityFilter(input.filters, Len(input.filters))
        /\ Len(requests[1].params.top) >= 1
        /\ DecimalValue(requests[1].params.top) = input.maxRows

\* Two entries, one value with a single quote, and the request is out
C8_Witness ==
    /\ tool = queryStatlineDataToolName
    /\ Len(requests) = 1
    /\ Len(input.filters) = 2
    /\ \E i \in 1..Len(input.filters[2].value) : input.filters[2].value[i] = "'"
    /\ Has(requests[1].params, "filter")

----------------------------------------------------------------------------
(* Properties of the metadata pipeline *)

\* The states in which getMetadataLogic has returned
MetadataReturned ==
    tool = getStatlineTableMetadataToolName /\ pc \in {"logicReturned", "done"}

\* C4: the dimensions of a returned document are in the order of the dimension
\* records of the /Dimensions response.
C4_DimensionsInRemoteOrder ==
    (MetadataReturned /\ logicOutcome.result # Null) =>
        /\ Len(logicOutcome.result.value.dimensions) = Len(local.dimensions.value)
        /\ \A i \in 1..Len(local.dimensions.value) :
              logicOutcome.result.value.dimensions[i].key = local.dimensions.value[i].Identifier

\* How often a key occurs among the records of a list
Occurrences(list, field, key) == Cardinality({i \in 1..Len(list) : list[i][field] = key})

\* C5: when the properties fetch or the dimension-list fetch failed the
\* operation never goes on and getMetadataLogic returns null, whatever the
\* other fetches gave; when both succeeded and only the data-property fetch
\* failed it returns a document with the fetched properties, an entry for each
\* fetched dimension and an empty measures list.
C5_EssentialFetchesDecide ==
    /\ (tool = getStatlineTableMetadataToolName /\ pc = "awaitSampleCodes") =>
          local.properties # Null /\ local.dimensions # Null
    /\ (MetadataReturned /\ (local.properties = Null \/ local.dimensions = Null)) =>
          logicOutcome.result = Null
    /\ (MetadataReturned /\ local.properties # Null /\ local.dimensions # Null
            /\ local.dataProperties = Null) =>
          /\ logicOutcome.result # Null
          /\ logicOutcome.result.value.measures = <<>>
          /\ logicOutcome.result.value.properties = local.properties.value
          /\ Len(logicOutcome.result.value.dimensions) = Len(local.dimensions.value)
          /\ \A i \in 1..Len(local.dimensions.value) :
                Occurrences(logicOutcome.result.value.dimensions, "key",
                            local.dimensions.value[i].Identifier)
                = Occurrences(local.dimensions.value, "Identifier",
                              local.dimensions.value[i].Identifier)

\* Properties with a key and dimensions fetched, the data-property fetch
\* failed, and the document is out
C5_Witness ==
    /\ MetadataReturned
    /\ local.properties # Null /\ local.dimensions # Null
    /\ DOMAIN local.properties.value # {}
    /\ Len(local.dimensions.value) = MaxDims
    /\ local.dataProperties = Null
    /\ logicOutcome.result # Null

\* The dimension-list fetch succeeded, the properties fetch failed, and
\* getMetadataLogic has returned null
C5_WitnessFailure ==
    /\ MetadataReturned
    /\ local.properties = Null /\ local.dimensions # Null /\ local.dataProperties # Null
    /\ logicOutcome.result = Null

----------------------------------------------------------------------------
(* Properties of the description handling *)

DescriptionDone == tool = "description" /\ local.dimension # Pending /\ local.measure # Pending

Ellipsis == <<".", ".", ".">>

\* What C7 requires of an output entry for a description text
C7_TruncatedOrUnchanged(entry, text) ==
    /\ Has(entry, "description")
    /\ Len(text) > 250 =>
          /\ Len(entry.description) = 253
          /\ SubSeq(entry.description, 1, 250) = SubSeq(text, 1, 250)
          /\ SubSeq(entry.description, 251, 253) = Ellipsis
    /\ Len(text) <= 250 => entry.description = text

\* C7 as stated: a description longer than 250 characters is output as its
\* first 250 characters followed by '...', a description of any length from 0
\* to 250 is output unchanged, for dimensions and measures alike.
C7_DescriptionRule ==
    (DescriptionDone /\ input.kind = "string") =>
        /\ C7_TruncatedOrUnchanged(local.dimension, input.text)
        /\ C7_TruncatedOrUnchanged(local.measure, input.text)

\* C7 amended: a description longer than 250 characters is output as its
\* first 250 characters followed by '...', a description of any length from 1
\* to 250 is output unchanged, and the empty description is left out of the
\* output, for dimensions and measures alike.
C7_DescriptionRuleNonEmpty ==
    (DescriptionDone /\ input.kind = "string") =>
        /\ Len(input.text) >= 1 =>
              /\ C7_TruncatedOrUnchanged(local.dimension, input.text)
              /\ C7_TruncatedOrUnchanged(local.measure, input.text)
        /\ Len(input.text) = 0 =>
              /\ ~Has(local.dimension, "description")
              /\ ~Has(local.measure, "description")

\* A description one character longer than the limit has been processed for
\* the dimension and for the measure
C7_Witness ==
    /\ DescriptionDone
    /\ input.kind = "string"
    /\ Len(input.text) = 251
    /\ Len(local.dimension.description) = 253
    /\ Len(local.measure.description) = 253

----------------------------------------------------------------------------
(* Bounds of the results *)

\* The states in which fetchObservationsFromCBS has returned
ObservationsReturned ==
    tool = queryStatlineDataToolName /\ pc \in {"queryReturned", "logicReturned", "done"}

\* C11: for every row cap maxRows and every schema-valid response, the list
\* of records the observation pipeline returns has at most maxRows records.
C11_RowsAtMostMaxRows ==
    (ObservationsReturned /\ queryResult # Null) =>
        /\ Len(queryResult.value) <= input.maxRows
        /\ pc \in {"logicReturned", "done"} =>
              /\ logicOutcome.result # Null
              /\ Len(logicOutcome.result.value) <= input.maxRows

\* The sample codes the document shows for a list of code records
ShownCodes(codes) == [i \in 1..Len(codes) |-> [id |-> codes[i].Identifier, title |-> codes[i].Title]]

\* C12: in every returned document the sampleCodes list of a dimension, when
\* present, has at most 5 entries and lists the codes of a schema-valid codes
\* response in the order the remote returned them.
C12_SampleCodesAtMostFive ==
    (MetadataReturned /\ logicOutcome.result # Null) =>
        \A i \in 1..Len(logicOutcome.result.value.dimensions) :
            LET dim == logicOutcome.result.value.dimensions[i] IN
            Has(dim, "sampleCodes") =>
                /\ Len(dim.sampleCodes) <= 5
                /\ \E b \in CodesBodies :
                      Has(b, "value") /\ dim.sampleCodes = ShownCodes(b.value)

----------------------------------------------------------------------------
(* Failure handling of the catalog lookups *)

\* The number of records of a catalog response, -1 when it has no record list
RecordCount(response) ==
    IF response.kind = "ok" /\ Has(response.body, "value") THEN Len(response.body.value) ELSE -1

\* The catalog lookup completed last
LastLookup == CatalogLog[Len(CatalogLog)]

\* C13: a by-identifier catalog lookup succeeds only when the response has
\* exactly one record; with zero records or with two or more
\* fetchCatalogMetadata returns null for that identifier.  Such a failure
\* concerns that identifier only: every candidate is still looked up, the
\* search returns its rows and the wrapper returns a success envelope.
C13_ExactlyOneRecord ==
    (tool = findStatlineTablesToolName /\ Has(local, "candidateIds")) =>
        /\ Len(CatalogLog) >= 1 =>
              /\ LastLookup.returned # Null <=> RecordCount(local.response) = 1
              /\ LastLookup.returned # Null =>
                    LastLookup.returned.value = local.response.body.value[1]
        /\ SearchReturned =>
              /\ Len(CatalogLog) = Len(local.candidateIds)
              /\ queryResult # Null
              /\ Len(queryResult.value) = Len(CatalogSuccesses)
        /\ pc = "done" => ~Has(envelope[1], "isError")

\* The first lookup was answered with two records and failed, and the lookup
\* of the second candidate is out
C13_Witness ==
    /\ tool = findStatlineTablesToolName
    /\ pc = "awaitCatalog"
    /\ local.i = 2
    /\ RecordCount(local.response) = 2
    /\ CatalogLog[1].returned = Null
    /\ Len(requests) = 3

----------------------------------------------------------------------------
(* Failure and empty result of the observation pipeline *)

OperationFailedText(toolName) ==
    <<"Operation failed for tool '", toolName,
      "'. CBS API might be unavailable or parameters might be invalid. Check server logs for details.">>

\* C14: in the observation pipeline a gateway failure makes the whole
\* operation return the failure sentinel with no rows, and a successful
\* response with an empty value list makes it return the empty list; at the
\* wrapper the former becomes an error envelope, the latter a success envelope.
C14_FailureVersusEmpty ==
    ObservationsReturned =>
        /\ Len(gatewayLog) = 1
        /\ gatewayLog[1].returned = Null =>
              /\ queryResult = Null
              /\ pc \in {"logicReturned", "done"} => logicOutcome.result = Null
              /\ pc = "done" =>
                    /\ Len(envelope) = 1
                    /\ Has(envelope[1], "isError") /\ envelope[1].isError
                    /\ envelope[1].content[1].text = OperationFailedText(tool)
        /\ (gatewayLog[1].returned # Null /\ gatewayLog[1].returned.value.value = <<>>) =>
              /\ queryResult = Some(<<>>)
              /\ pc \in {"logicReturned", "done"} => logicOutcome.result = Some(<<>>)
              /\ pc = "done" =>
                    /\ Len(envelope) = 1
                    /\ ~Has(envelope[1], "isError")
                    /\ envelope[1].content[1].text = JSONstringify(Some(<<>>)).text

\* A successful response without any record has been wrapped
C14_Witness ==
    /\ tool = queryStatlineDataToolName
    /\ pc = "done"
    /\ gatewayLog[1].returned # Null
    /\ gatewayLog[1].returned.value.value = <<>>
    /\ ~Has(envelope[1], "isError")

\* A failed gateway call has been wrapped
C14_WitnessFailure ==
    /\ tool = queryStatlineDataToolName
    /\ pc = "done"
    /\ gatewayLog[1].returned = Null
    /\ Has(envelope[1], "isError")

----------------------------------------------------------------------------
(* Properties of the gateway *)

\* C15: every call of fetchAndValidate issues exactly one GET and never
\* retries; it returns the parsed value only when the status is a success
\* status, the body is JSON and the parsed body passes the schema; in every
\* other case (network error, non-success status, JSON parse error, schema
\* mismatch) it returns null, and it never throws.
C15_OneGetValueOrNull ==
    tool = "fetchAndValidate" =>
        /\ pc = "start" => requests = <<>>
        /\ pc # "start" => Len(requests) = 1 /\ requests[1].method = "GET"
        /\ pc = "settled" =>
              /\ queryResult.kind = "returned"
              /\ queryResult.result # Null <=>
                    /\ local.response.kind = "ok"
                    /\ safeParse(input.schema, local.response.body) # Null
              /\ queryResult.result # Null =>
                    queryResult.result = safeParse(input.schema, local.response.body)

\* A well-formed JSON body that does not pass the schema has been received
C15_Witness ==
    /\ tool = "fetchAndValidate"
    /\ pc = "settled"
    /\ local.response.kind = "ok"
    /\ safeParse(input.schema, local.response.body) = Null
    /\ queryResult.result = Null
    /\ Len(requests) = 1

----------------------------------------------------------------------------
(* Success at the execution wrapper *)

\* The execution function returned a value that is not null and that
\* JSON.stringify can serialise
ExecutionSucceeded ==
    /\ logicOutcome.kind = "returned"
    /\ logicOutcome.result # Null
    /\ logicOutcome.result # Cyclic

\* C16: handleToolExecution returns a success envelope (no isError, the
\* content is the JSON serialisation of the payload) if and only if the
\* execution function returns a non-null serialisable value; the empty list is
\* a success; it returns exactly one envelope, also when the execution
\* function throws.
C16_SuccessIffValue ==
    /\ Len(envelope) <= 1
    /\ pc = "done" =>
          /\ Len(envelope) = 1
          /\ ~Has(envelope[1], "isError") <=> ExecutionSucceeded
          /\ Has(envelope[1], "isError") => envelope[1].isError
          /\ Len(envelope[1].content) = 1
          /\ ExecutionSucceeded =>
                envelope[1].content[1] =
                    [type |-> "text", text |-> <<"JSON", logicOutcome.result.value>>]
          /\ logicOutcome.kind = "threw" => Has(envelope[1], "isError")

\* The execution function returned the empty list and the wrapper has
\* returned
C16_Witness ==
    /\ pc = "done"
    /\ logicOutcome.kind = "returned"
    /\ logicOutcome.result = Some(<<>>)
    /\ Len(envelope) = 1
    /\ ~Has(envelope[1], "isError")

----------------------------------------------------------------------------
(* Scheduling of the enrichment lookups *)

\* C18: within one search invocation the enrichment lookups are strictly
\* sequential: at most one catalog lookup is outstanding at any moment, the
\* lookup of candidate i+1 is issued only after the lookup of candidate i has
\* completed (successfully or not), and the lookups are issued in candidate
\* order.
C18_LookupsSequential ==
    tool = findStatlineTablesToolName =>
        /\ Cardinality(outstanding) <= 1
        /\ Has(local, "candidateIds") =>
              /\ Len(requests) = 1 + local.i
              /\ local.i <= Len(local.candidateIds)
              /\ \A k \in 1..local.i :
                    requests[k + 1] = catalogRequest(local.candidateIds[k])
              /\ \A k \in 1..Len(CatalogLog) : CatalogLog[k].tableId = local.candidateIds[k]
              /\ pc = "awaitCatalog" =>
                    /\ Len(CatalogLog) = local.i - 1
                    /\ outstanding = {Len(requests)}
              /\ pc # "awaitCatalog" =>
                    /\ Len(CatalogLog) = local.i
                    /\ outstanding = {}

\* The first lookup has failed and the lookup of the second candidate is the
\* only one outstanding
C18_Witness ==
    /\ tool = findStatlineTablesToolName
    /\ pc = "awaitCatalog"
    /\ local.i = 2
    /\ Len(CatalogLog) = 1
    /\ CatalogLog[1].returned = Null
    /\ outstanding = {3}

----------------------------------------------------------------------------
(* Gateway calls and termination of a search invocation *)

\* The number of candidates the initial search returned: none when it failed
CandidateCount == IF Has(local, "candidateIds") THEN Len(local.candidateIds) ELSE 0

\* The catalog requests issued for an identifier
LookupsOf(id) == {k \in 2..Len(requests) : requests[k] = catalogRequest(id)}
CandidatesOf(id) == {k \in 1..CandidateCount : local.candidateIds[k] = id}

\* What holds of the gateway calls of a search invocation in every state
SearchCallsBounded ==
    (tool = findStatlineTablesToolName /\ ~ZeroTokens(input.query)) =>
        /\ pc \notin {"start", "awaitInitialSearch"} => Len(requests) <= 1 + CandidateCount
        /\ SearchReturned =>
              /\ Len(requests) = 1 + CandidateCount
              /\ Len(gatewayLog) = 1 + CandidateCount
              /\ \A id \in Ids : Cardinality(LookupsOf(id)) = Cardinality(CandidatesOf(id))
              /\ queryResult # Null

\* C19: in a search invocation with a non-empty token list whose initial
\* search returns N candidates, every candidate is looked up exactly once
\* whether or not its lookup fails, so the invocation issues exactly 1 + N
\* gateway calls, and it then terminates with a result.
C19_OnePlusNCallsThenResult ==
    /\ []SearchCallsBounded
    /\ <>(pc = "done" /\ Len(envelope) = 1)

\* Every lookup of a full candidate list failed and the invocation has
\* returned
C19_Witness ==
    /\ tool = findStatlineTablesToolName
    /\ pc = "done"
    /\ CandidateCount = MaxCandidates
    /\ Len(requests) = 1 + MaxCandidates
    /\ Len(CatalogSuccesses) = 0

----------------------------------------------------------------------------
(* Scheduling of the metadata fetches *)

\* The dimensions for which a sample-codes fetch is made, in dimension order
QualifyingDimensions(dimensions) == SelectSeq(dimensions, LAMBDA dim : fetchesSampleCodes(dim))

\* The facet fetches that have not completed
PendingFacets ==
    {k \in 1..3 : <<local.properties, local.dimensions, local.dataProperties>>[k] = Pending}

\* C20: in one metadata invocation the properties, dimension-list and
\* data-property fetches are all issued before any of them is awaited, so all
\* three can be outstanding at once; no sample-codes fetch is issued until all
\* three have completed; the sample-codes fetches of all qualifying dimensions
\* are issued without waiting for one another.
C20_FacetsThenSampleCodes ==
    (tool = getStatlineTableMetadataToolName /\ pc # "start") =>
        /\ SubSeq(requests, 1, 3) = <<propertiesRequest(input.tableId),
                                       dimensionsRequest(input.tableId),
                                       dataPropertiesRequest(input.tableId)>>
        /\ pc = "awaitFacets" =>
              /\ Len(requests) = 3
              /\ outstanding = PendingFacets
        /\ Len(requests) > 3 => PendingFacets = {}
        /\ pc = "awaitSampleCodes" =>
              LET qualifying == QualifyingDimensions(local.dimensions.value) IN
              /\ Len(requests) = 3 + Len(qualifying)
              /\ \A j \in 1..Len(qualifying) :
                    requests[3 + j] = sampleCodesRequest(qualifying[j].CodesUrl.value)
              /\ outstanding \subseteq 4..Len(requests)
              /\ Len(local.processedDimensions) + Cardinality(outstanding)
                    = Len(local.dimensions.value)

\* The sample-codes fetches of two dimensions are outstanding together
C20_Witness ==
    /\ tool = getStatlineTableMetadataToolName
    /\ pc = "awaitSampleCodes"
    /\ Len(requests) = 5
    /\ outstanding = {4, 5}

\* The three facet fetches are outstanding together
C20_WitnessFacets ==
    /\ tool = getStatlineTableMetadataToolName
    /\ pc = "awaitFacets"
    /\ outstanding = {1, 2, 3}

----------------------------------------------------------------------------
(* Independence of concurrent invocations *)

\* The state of invocation k, running or suspended
InvocationState(k) == IF eventLoop.running = k THEN RunningInvocation ELSE eventLoop.suspended[k]

\* The rows a search invocation returns for the gateway results it has
\* received itself
RowsOf(log) ==
    LET successes == SelectSeq(log, LAMBDA e : e.context = "catalogFetch" /\ e.returned # Null)
    IN [n \in 1..Len(successes) |-> enrichedRow(successes[n].tableId, successes[n].returned.value)]

\* The result of the execution function of an invocation run alone, from its
\* input and the gateway results it has received itself
ResultAlone(st) ==
    IF st.tool = queryStatlineDataToolName
    THEN IF st.gatewayLog[1].returned = Null THEN Null
         ELSE Some(st.gatewayLog[1].returned.value.value)
    ELSE Some(RowsOf(st.gatewayLog))

\* The requests of an invocation run alone, as far as it has come
RequestsAlone(st) ==
    IF st.tool = queryStatlineDataToolName
    THEN <<observationsRequest(st.input)>>
    ELSE <<initialRequest(searchTermsOf(st.input.query), st.input.maxResults)>>
         \o (IF Has(st.local, "candidateIds")
             THEN [n \in 1..st.local.i |-> catalogRequest(st.local.candidateIds[n])]
             ELSE <<>>)

\* An invocation is where it would be had it run alone
AsIfAlone(st) ==
    /\ st.input = ConcurrentInput(st.tool)
    /\ st.pc = "start" => st.requests = <<>> /\ st.gatewayLog = <<>> /\ st.envelope = <<>>
    /\ st.pc # "start" => st.requests = RequestsAlone(st)
    /\ st.pc \in {"logicReturned", "done"} =>
          st.logicOutcome = [kind |-> "returned", result |-> ResultAlone(st)]
    /\ st.pc # "done" => st.envelope = <<>>
    /\ st.pc = "done" => st.envelope = <<handleToolExecution(st.tool, st.logicOutcome)>>

\* An invocation waits for a gateway call
Stalled(st) ==
    /\ st.pc \in {"awaitInitialSearch", "awaitCatalog", "awaitObservations"}
    /\ st.outstanding # {}

\* C17: with two tool invocations in progress at once, a gateway call that
\* never completes in one invocation stalls only that invocation: the other
\* invocation, whose own gateway calls all complete, eventually returns its
\* envelope, and the result of every invocation is the one it would have
\* produced alone, from its own input and its own gateway results.
C17_OthersReturnUnaffected ==
    /\ [](\A k \in Invocations : AsIfAlone(InvocationState(k)))
    /\ <>(InvocationState(2).pc = "done" /\ Len(InvocationState(2).envelope) = 1)

\* Invocation 2 has returned its envelope while invocation 1, a search, still
\* waits for a catalog lookup
C17_Witness ==
    /\ DOMAIN eventLoop.suspended # {}
    /\ InvocationState(2).pc = "done"
    /\ Len(InvocationState(2).envelope) = 1
    /\ Stalled(InvocationState(1))
    /\ InvocationState(1).pc = "awaitCatalog"

----------------------------------------------------------------------------
(* The entries of the dimensions list and the dimension records *)

\* The completed sample-codes fetches, in the order they completed
SampleCodesLog == SelectSeq(gatewayLog, LAMBDA e : e.context = "sampleCodes")

\* The positions, in the /Dimensions response, of the dimensions a
\* sample-codes fetch was issued for, and of the others
FetchedPositions == {local.dimOf[j] : j \in 1..Len(local.dimOf)}
SkippedPositions == (1..Len(local.dimensions.value)) \ FetchedPositions

\* The position of the dimension record behind each entry of the dimensions
\* list: the skipped dimensions in remote order, then the fetched ones as their
\* fetches completed
PushOrder ==
    SortedSeq(SkippedPositions) \o [j \in 1..Len(SampleCodesLog) |-> SampleCodesLog[j].dimension]

\* The same with the fetches completing in the order they were issued
IssueOrder == SortedSeq(SkippedPositions) \o SortedSeq(FetchedPositions)

\* A successful document has been returned
DocumentReturned == MetadataReturned /\ logicOutcome.result # Null
Document == logicOutcome.result.value

\* The entry of the dimensions list made for the dimension record at position i
EntryOf(i) == Document.dimensions[CHOOSE n \in 1..Len(PushOrder) : PushOrder[n] = i]

\* C21: for a fixed table identifier and fixed remote responses the returned
\* document is the same for every order in which the facet fetches and the
\* sample-codes fetches complete: it is the document of the run in which the
\* fetches complete in the order they were issued.
C21_CompletionOrderIrrelevant ==
    DocumentReturned =>
        /\ Document.tableId = input.tableId
        /\ Document.properties = local.properties.value
        /\ Document.measures = measuresOf(local.dataProperties)
        /\ Len(Document.dimensions) = Len(IssueOrder)
        /\ Document.dimensions = [n \in 1..Len(IssueOrder) |-> EntryOf(IssueOrder[n])]

\* The dimension records of the /Dimensions response, once
\* processDimensionsWithSampleCodes has started
DimensionsStarted ==
    /\ tool = getStatlineTableMetadataToolName
    /\ pc = "awaitSampleCodes" \/ DocumentReturned
RemoteDimensions == local.dimensions.value

\* The dimension carries a non-null codes-endpoint reference
CarriesCodesReference(dim) == "CodesUrl" \in DOMAIN dim /\ dim.CodesUrl # Null

\* The dimension is of the measure kind or of the topic kind
MeasureOrTopicKind(dim) == "Kind" \in DOMAIN dim /\ dim.Kind \in {"Measure", "Topic"}

\* C22: a sample-codes fetch is issued for a dimension if and only if the
\* dimension carries a non-null codes-endpoint reference and its kind is
\* neither the measure kind nor the topic kind; the gateway calls after the
\* three facet fetches are exactly those fetches, one per such dimension, and
\* the entry of every other dimension has no sampleCodes field.
C22_SampleCodesFetchCondition ==
    DimensionsStarted =>
        /\ \A i \in 1..Len(RemoteDimensions) :
              i \in FetchedPositions <=>
                 (CarriesCodesReference(RemoteDimensions[i]) /\ ~MeasureOrTopicKind(RemoteDimensions[i]))
        /\ Len(requests) = 3 + Cardinality(FetchedPositions)
        /\ Len(local.dimOf) = Cardinality(FetchedPositions)
        /\ \A j \in 1..Len(local.dimOf) :
              requests[3 + j].endpoint = <<RemoteDimensions[local.dimOf[j]].CodesUrl.value>>
        /\ DocumentReturned =>
              \A i \in SkippedPositions : ~Has(EntryOf(i), "sampleCodes")

\* A document is returned for a topic dimension with a codes reference, which
\* got no fetch, and a dimension whose sample codes were fetched
C22_Witness ==
    /\ DocumentReturned
    /\ \E i \in SkippedPositions :
          /\ CarriesCodesReference(RemoteDimensions[i])
          /\ ~Has(EntryOf(i), "sampleCodes")
    /\ \E i \in FetchedPositions : Has(EntryOf(i), "sampleCodes")
    /\ Len(requests) = 4

----------------------------------------------------------------------------
(* Failed sample-codes fetches *)

\* An entry without its sampleCodes field
WithoutSampleCodes(entry) == [k \in DOMAIN entry \ {"sampleCodes"} |-> entry[k]]

\* The key, title and description of a dimension record, as an entry
PlainEntry(dim) == processedDimension(dim, Undefined)

\* The completed sample-codes fetches that failed
FailedSampleCodes == SelectSeq(SampleCodesLog, LAMBDA e : e.returned = Null)

\* C23: a failed sample-codes fetch for one dimension leaves that dimension in
\* the output with its key, title and description but without a sampleCodes
\* field; the entry of every other dimension is what its own record and its
\* own fetch make it; the operation does not fail.
C23_FailedSampleCodesTolerated ==
    (MetadataReturned /\ Len(FailedSampleCodes) > 0) =>
        /\ DocumentReturned
        /\ \A j \in 1..Len(SampleCodesLog) :
              LET e == SampleCodesLog[j]
                  dim == RemoteDimensions[e.dimension]
                  entry == EntryOf(e.dimension)
              IN /\ entry.key = dim.Identifier
                 /\ entry.title = dim.Title
                 /\ WithoutSampleCodes(entry) = PlainEntry(dim)
                 /\ IF e.returned = Null
                    THEN ~Has(entry, "sampleCodes")
                    ELSE /\ Has(entry, "sampleCodes")
                         /\ entry.sampleCodes =
                               [n \in 1..Len(e.returned.value) |->
                                   [id |-> e.returned.value[n].Identifier,
                                    title |-> e.returned.value[n].Title]]
        /\ \A i \in SkippedPositions : EntryOf(i) = PlainEntry(RemoteDimensions[i])

\* A document is returned after the sample-codes fetch of one dimension with
\* a description failed and that of another dimension returned codes
C23_Witness ==
    /\ DocumentReturned
    /\ \E j, k \in 1..Len(SampleCodesLog) :
          /\ SampleCodesLog[j].returned = Null
          /\ Has(EntryOf(SampleCodesLog[j].dimension), "description")
          /\ ~Has(EntryOf(SampleCodesLog[j].dimension), "sampleCodes")
          /\ SampleCodesLog[k].returned # Null
          /\ Len(EntryOf(SampleCodesLog[k].dimension).sampleCodes) > 0

----------------------------------------------------------------------------
(* Fallbacks of the enriched rows *)

\* The key is present in the record with a value other than null
PresentNonNull(rec, key) == key \in DOMAIN rec /\ rec[key] # Null

\* C24: the row of every successfully enriched catalog record follows the
\* fallback precedence: summary is the record's Summary when present, else its
\* ShortDescription; modified is the record's MetaDataModified when present
\* and non-null, else its Modified; title is the record's Title when present,
\* else a placeholder string that contains the candidate identifier.
C24_FallbackPrecedence ==
    (SearchReturned /\ Has(local, "candidateIds") /\ queryResult # Null) =>
        /\ Len(queryResult.value) = Len(CatalogSuccesses)
        /\ \A k \in 1..Len(CatalogSuccesses) :
              LET rec == CatalogSuccesses[k].returned.value
                  tableId == CatalogSuccesses[k].tableId
                  row == queryResult.value[k]
              IN /\ IF "Summary" \in DOMAIN rec
                    THEN Has(row, "summary") /\ row.summary = rec.Summary
                    ELSE IF "ShortDescription" \in DOMAIN rec
                    THEN Has(row, "summary") /\ row.summary = rec.ShortDescription
                    ELSE ~Has(row, "summary")
                 /\ IF PresentNonNull(rec, "MetaDataModified")
                    THEN Has(row, "modified") /\ row.modified = rec.MetaDataModified
                    ELSE IF "Modified" \in DOMAIN rec
                    THEN Has(row, "modified") /\ row.modified = rec.Modified
                    ELSE ~Has(row, "modified")
                 /\ IF "Title" \in DOMAIN rec
                    THEN row.title = <<rec.Title>>
                    ELSE /\ Len(row.title) = 1 + Len(tableId)
                         /\ row.title[1] = "Title missing for "
                         /\ SubSeq(row.title, 2, Len(row.title)) = tableId

\* Two rows are returned: one of a record with Title, Summary and a non-null
\* MetaDataModified, one of a record without Title and Summary whose
\* MetaDataModified is null
C24_Witness ==
    /\ SearchReturned /\ Has(local, "candidateIds") /\ queryResult # Null
    /\ Len(queryResult.value) = 2
    /\ \E j, k \in 1..2 :
          LET full == CatalogSuccesses[j].returned.value
              bare == CatalogSuccesses[k].returned.value
          IN /\ "Title" \in DOMAIN full /\ "Summary" \in DOMAIN full
             /\ "ShortDescription" \in DOMAIN full
             /\ PresentNonNull(full, "MetaDataModified") /\ PresentNonNull(full, "Modified")
             /\ full.MetaDataModified # full.Modified
             /\ queryResult.value[j].modified = full.MetaDataModified
             /\ "Title" \notin DOMAIN bare /\ "Summary" \notin DOMAIN bare
             /\ "MetaDataModified" \in DOMAIN bare /\ bare.MetaDataModified = Null
             /\ queryResult.value[k].summary = bare.ShortDescription
             /\ queryResult.value[k].modified = bare.Modified

----------------------------------------------------------------------------
(* The properties map *)

\* The raw record of the /Properties response has been received
RawPropertiesReceived ==
    /\ tool = getStatlineTableMetadataToolName
    /\ pc # "start"
    /\ local.rawData # Pending
    /\ local.rawData # Null
RawProperties == local.rawData.value

\* The keys the properties map may hold
AllowedPropertyKeys ==
    {"Title", "Description", "Modified", "Summary", "ShortDescription", "Status", "Frequency"}

\* C25: the properties map returned by fetchTablePropertiesFromCBS contains a
\* key if and only if the key is in the allow-list and present in the raw
\* record, with the raw record's value; a field absent from the raw record is
\* omitted entirely and an extra field of the raw record is never copied.
C25_PropertiesAllowList ==
    RawPropertiesReceived =>
        /\ local.properties # Null
        /\ \A key \in AllowedPropertyKeys \cup DOMAIN RawProperties \cup DOMAIN local.properties.value :
              key \in DOMAIN local.properties.value
                 <=> (key \in AllowedPropertyKeys /\ key \in DOMAIN RawProperties)
        /\ \A key \in DOMAIN local.properties.value :
              local.properties.value[key] = RawProperties[key]
        /\ DocumentReturned => Document.properties = local.properties.value

\* A document is returned whose raw properties record has allow-listed
\* fields, lacks others and has an extra field
C25_Witness ==
    /\ RawPropertiesReceived
    /\ DocumentReturned
    /\ DOMAIN RawProperties \ AllowedPropertyKeys # {}
    /\ AllowedPropertyKeys \ DOMAIN RawProperties # {}
    /\ DOMAIN Document.properties = {"Title", "Status", "Modified"}

----------------------------------------------------------------------------
(* The measures list *)

\* The data-property records with the topic type tag, in remote order
TopicRecords == SelectSeq(local.dataProperties.value, LAMBDA prop : prop.Type = "Topic")

\* C26: when the data-property fetch succeeds, the measures list of the
\* document has exactly one entry for each data-property record whose type tag
\* is the topic tag and none for any other record, in the relative order of
\* the records in the remote response.
C26_MeasuresAreTopicsInOrder ==
    (DocumentReturned /\ local.dataProperties # Null) =>
        /\ Len(Document.measures) = Len(TopicRecords)
        /\ \A n \in 1..Len(TopicRecords) :
              /\ Document.measures[n].key = TopicRecords[n].Key
              /\ Document.measures[n].title = TopicRecords[n].Title

\* A document is returned for a data-property list with a record of another
\* type before a topic record
C26_Witness ==
    /\ DocumentReturned /\ local.dataProperties # Null
    /\ Len(local.dataProperties.value) = 2
    /\ local.dataProperties.value[1].Type # "Topic"
    /\ local.dataProperties.value[2].Type = "Topic"
    /\ Len(Document.measures) = 1
    /\ Document.measures[1].key = local.dataProperties.value[2].Key

\* A document is returned for two different topic records
C26_WitnessOrder ==
    /\ DocumentReturned /\ local.dataProperties # Null
    /\ Len(Document.measures) = 2
    /\ Document.measures[1].key = "Dichtheid_2"
    /\ Document.measures[2].key = "Bevolking_1"

----------------------------------------------------------------------------
(* No sample-codes fetch after a failed essential fetch *)

\* The properties fetch or the dimension-list fetch has failed
EssentialFetchFailed == local.properties = Null \/ local.dimensions = Null

\* C27: in a metadata invocation where the properties fetch or the
\* dimension-list fetch fails no sample-codes fetch is ever issued: the
\* invocation makes exactly the three facet calls and returns the failure
\* sentinel, even when the dimension list itself was fetched.
C27_NoSampleCodesAfterEssentialFailure ==
    (tool = getStatlineTableMetadataToolName /\ pc # "start") =>
        /\ EssentialFetchFailed =>
              /\ Len(requests) = 3
              /\ Len(SampleCodesLog) = 0
              /\ outstanding \subseteq 1..3
        /\ (MetadataReturned /\ EssentialFetchFailed) =>
              /\ logicOutcome.result = Null
              /\ Len(requests) = 3
        /\ Len(requests) > 3 =>
              /\ local.properties # Pending /\ local.properties # Null
              /\ local.dimensions # Pending /\ local.dimensions # Null

\* The failure sentinel is returned after three gateway calls although the
\* dimension list was fetched and holds a dimension that qualifies for a
\* sample-codes fetch
C27_Witness ==
    /\ MetadataReturned
    /\ local.properties = Null
    /\ local.dimensions # Null /\ local.dimensions # Pending
    /\ \E i \in 1..Len(local.dimensions.value) :
          /\ CarriesCodesReference(local.dimensions.value[i])
          /\ ~MeasureOrTopicKind(local.dimensions.value[i])
    /\ Len(requests) = 3
    /\ logicOutcome.result = Null

----------------------------------------------------------------------------
(* One entry per dimension record *)

\* C28: in every successful document the dimensions list has exactly one
\* entry per dimension record of the /Dimensions response, none lost and none
\* duplicated, whether the sample-codes fetch of a dimension succeeded, failed
\* or was skipped and in whatever order the fetches completed; an empty remote
\* dimension list gives a successful document with an empty dimensions list.
C28_OneEntryPerDimension ==
    /\ DocumentReturned =>
          /\ Len(Document.dimensions) = Len(RemoteDimensions)
          /\ \A i \in 1..Len(RemoteDimensions) :
                Occurrences(Document.dimensions, "key", RemoteDimensions[i].Identifier)
                = Occurrences(RemoteDimensions, "Identifier", RemoteDimensions[i].Identifier)
          /\ Len(PushOrder) = Len(RemoteDimensions)
          /\ \A i \in 1..Len(RemoteDimensions) :
                /\ Cardinality({n \in 1..Len(PushOrder) : PushOrder[n] = i}) = 1
                /\ WithoutSampleCodes(EntryOf(i)) = PlainEntry(RemoteDimensions[i])
    /\ (MetadataReturned /\ local.properties # Null /\ local.dimensions = Some(<<>>)) =>
          /\ DocumentReturned
          /\ Document.dimensions = <<>>
          /\ Len(requests) = 3

\* A document with two entries is returned for a dimension whose fetch was
\* skipped and a dimension whose fetch failed, the entries not in remote order
C28_Witness ==
    /\ DocumentReturned
    /\ Len(RemoteDimensions) = 2
    /\ 1 \in FetchedPositions /\ 2 \in SkippedPositions
    /\ Len(FailedSampleCodes) = 1
    /\ Document.dimensions[1].key = RemoteDimensions[2].Identifier
    /\ Document.dimensions[2].key = RemoteDimensions[1].Identifier
    /\ RemoteDimensions[1].Identifier # RemoteDimensions[2].Identifier

\* A document with an empty dimensions list is returned for an empty remote
\* dimension list
C28_WitnessEmpty ==
    /\ DocumentReturned
    /\ local.dimensions = Some(<<>>)
    /\ Document.dimensions = <<>>

====
